---- MODULE Spec2Model ----
(***************************************************************************)
(* State-machine model of the Metaforo / Nervos DAO vote watchdog          *)
(* (dao-v1.0/metaforo_watchdog_en.py; the _cn variant has the same code    *)
(* with translated messages).  The script is single-threaded: every        *)
(* function is a frame with its own program counter, a caller waits while  *)
(* its callee runs.  The remote services are the environment: every HTTP   *)
(* attempt nondeterministically succeeds or fails.                         *)
(***************************************************************************)
EXTENDS Integers, Sequences, FiniteSets, TLC

VARIABLES
    \* ---- the remote data (never changed by the script) ----
    poll_votes,       \* option id -> sequence of non-empty vote pages (poll/list)
    chain,            \* address -> sequence of live cells (explorer)
    profiles,         \* user id -> profile (profile/<id>/neurontest)
    threads,          \* thread id -> thread data (get_thread/<id>)
    endless,          \* the listings that never end: the options whose vote
                      \* listing and the addresses whose cell listing answer
                      \* every page number with their first page
    \* ---- the network, as seen from outside ----
    apis_used,        \* the endpoints an HTTP request has been sent to
    \* ---- request_with_retry frame ----
    rpc,              \* "idle" | "try" | "sleep" | "returned" | "raised"
    method, url, max_retries,
    attempt,          \* loop variable of `for attempt in range(max_retries + 1)`
    last_exception,
    outcome,          \* what the call hands to its caller: response or exception
    n_attempts,       \* HTTP requests sent by the current call
    n_delays,         \* time.sleep(RETRY_DELAY) calls of the current call
    \* ---- get_all_votes frame ----
    gpc,              \* "idle" | "request" | "wait" | "cooldown" | "done"
    option_id, all_votes, vpage,
    votes_result,     \* return value: [none |-> TRUE] or the vote list
    vote_requests,    \* page numbers requested by the current call, in order
    n_cooldowns,      \* time.sleep(0.5) calls of the current call
    \* ---- get_address_onchain_weight frame ----
    wpc,              \* "idle" | "request" | "wait" | "cooldown" | "done"
    address, total_capacity, wpage,
    weight_result,    \* return value (whole CKB)
    cell_requests,    \* page numbers requested by the current call, in order
    failed_page,      \* the page whose request failed in the current call, or 0
    caught,           \* the exception handled at lines 298-307, or None
    \* ---- pyckb (module state) ----
    pyckb_config,     \* pyckb.config.current
    conversions,      \* the calls of metamask_to_ckb_address that returned, in
                      \* order: arguments and returned address
    \* ---- get_user_dao_addresses frame ----
    upc,              \* "idle" | "request" | "wait" | "done" | "raised"
    user_id,
    addresses_result, \* return value: the address list
    \* ---- process_option frame ----
    ppc,              \* "idle" | "start" | "wait_votes" | "voter" | "wait_addresses"
                      \* | "address" | "wait_weight" | "export" | "done" | "raised"
    po_option_id, voters_data,
    vi,               \* index of the vote being enriched (i of line 346, from 1)
    addresses,
    ai,               \* index of the address being weighed (loop of line 364)
    weight_list, total_onchain_weight,
    files,            \* return value: None or the files written
    \* ---- the disk ----
    exports,          \* the export batches written, in order
    \* ---- get_poll_options frame ----
    opc,              \* "idle" | "request" | "wait" | "done"
    gpo_thread_id,
    options_result,   \* return value: None or the options and the thread id
    thread_error,     \* the exception handled at lines 171-173, or None
    \* ---- main frame ----
    mpc,              \* "idle" | "start" | "resolve" | "option" | "wait_option"
                      \* | "wait_single" | "exited"
    argv,             \* sys.argv[1:]
    thread_id, options,
    oi,               \* index of the option being processed (loop of line 491)
    all_files,
    exit_status,      \* None while the script runs, then the exit status
    option_calls      \* the option ids process_option was called with, in order

worldVars == <<poll_votes, chain, profiles, threads, endless>>
netVars   == <<apis_used>>
rwrVars   == <<rpc, method, url, max_retries, attempt, last_exception, outcome,
               n_attempts, n_delays>>
gavVars   == <<gpc, option_id, all_votes, vpage, votes_result, vote_requests,
               n_cooldowns>>
gawVars   == <<wpc, address, total_capacity, wpage, weight_result, cell_requests,
               failed_page, caught>>
gudaVars  == <<pyckb_config, conversions, upc, user_id, addresses_result>>
poVars    == <<ppc, po_option_id, voters_data, vi, addresses, ai, weight_list,
               total_onchain_weight, files, exports>>
gpoVars   == <<opc, gpo_thread_id, options_result, thread_error>>
mainVars  == <<mpc, argv, thread_id, options, oi, all_files, exit_status,
               option_calls>>
vars      == <<worldVars, netVars, rwrVars, gavVars, gawVars, gudaVars, poVars,
               gpoVars, mainVars>>

(***************************************************************************)
(* Configuration                                                           *)
(***************************************************************************)
MAX_RETRIES == 3
RETRY_DELAY == 3
SUCCESS_CODE == 20000
PAGE_SIZE == 20
SHANNONS_PER_CKB == 100000000

(***************************************************************************)
(* Bounds of the model                                                     *)
(***************************************************************************)
MaxVotePages == 2      \* non-empty vote pages an option may have
MaxPageVotes == 2      \* votes on one page
MaxFullPages == 2      \* full pages of live cells an address may have
MaxVoters == 2         \* votes of the option process_option works on
MaxConversions == 3    \* calls of metamask_to_ckb_address studied on their own
MaxEndlessPages == 3   \* pages of a listing that never ends the model follows

None == [none |-> TRUE]

(***************************************************************************)
(* Exceptions.  `at` is the attempt that produced the object: it stands    *)
(* for the identity of the exception object.                               *)
(***************************************************************************)
ErrStatuses == {400, 404, 429, 500, 503}

Exc(cls, status, at) == [cls |-> cls, status |-> status, at |-> at]

\* What one HTTP attempt can raise: requests.get/post or raise_for_status.
\* "RequestException" stands for the other subclasses (malformed response:
\* ChunkedEncodingError, ContentDecodingError, InvalidHeader, ...).
AttemptErrors(at) ==
    {Exc("ConnectionError", 0, at), Exc("Timeout", 0, at),
     Exc("RequestException", 0, at)}
    \cup {Exc("HTTPError", s, at) : s \in ErrStatuses}

\* Variant of lines 52-56: every HTTP error status is worth a retry.
is_retryable_error_AnyStatus(exception) ==
    exception.cls \in {"ConnectionError", "Timeout", "HTTPError"}

\* lines 37-58
is_retryable_error(exception) ==
    \/ exception.cls = "ConnectionError"
    \/ exception.cls = "Timeout"
    \/ /\ exception.cls = "HTTPError"
       /\ (exception.status = 429 \/ exception.status >= 500)

\* str.lower() on the method names in use
Lower(m) == CASE m = "GET" -> "get" [] m = "POST" -> "post" [] OTHER -> m

IsRequestException(e) == e.cls # "ValueError"

(***************************************************************************)
(* The remote services.  A response that passed raise_for_status carries a *)
(* body; `json` is FALSE for a body response.json() cannot decode.  The    *)
(* platform wraps its data in an envelope {status, code, data}.            *)
(***************************************************************************)
\* the user data of a profile (lines 254-258)
Profile(native, key) == [neuron_addresses |-> native, web3_public_key |-> key]

Body(json, status, code, data) ==
    [json |-> json, status |-> status, code |-> code, data |-> data]

VotePage(o, p) ==
    IF o \in endless.votes THEN poll_votes[o][1]
    ELSE IF p \in 1..Len(poll_votes[o]) THEN poll_votes[o][p] ELSE <<>>

\* page p of the live cells of address a
CellPage(a, p, size) ==
    LET n == Len(chain[a]) IN
    IF a \in endless.cells THEN SubSeq(chain[a], 1, size)
    ELSE IF (p - 1) * size < n
    THEN SubSeq(chain[a], (p - 1) * size + 1, IF p * size < n THEN p * size ELSE n)
    ELSE <<>>

\* Bodies the platform or the explorer may send for a successful request:
\* the data asked for, an envelope reporting a failure, or an undecodable body.
Bodies(u) ==
    CASE u.api = "poll/list" ->
            {Body(TRUE, TRUE, SUCCESS_CODE, VotePage(u.option_id, u.page)),
             Body(TRUE, FALSE, 40000, <<>>),
             Body(TRUE, TRUE, 40000, <<>>),
             Body(FALSE, FALSE, 0, <<>>)}
      [] u.api = "get_thread" ->
            {Body(TRUE, TRUE, SUCCESS_CODE, threads[u.thread_id]),
             Body(TRUE, FALSE, 40000, <<>>),
             Body(FALSE, FALSE, 0, <<>>)}
      [] u.api = "profile" ->
            {Body(TRUE, TRUE, SUCCESS_CODE, profiles[u.user_id]),
             \* no user data: the defaults of lines 254-258
             Body(TRUE, TRUE, SUCCESS_CODE, Profile(<<>>, <<>>)),
             Body(TRUE, FALSE, 40000, <<>>),
             Body(FALSE, FALSE, 0, <<>>)}
      [] u.api = "address_live_cells" ->
            {Body(TRUE, TRUE, 0, CellPage(u.address, u.page, u.page_size)),
             Body(FALSE, FALSE, 0, <<>>)}

Response(body) == [kind |-> "response", body |-> body]
Raised(e)      == [kind |-> "exception", exc |-> e]

(***************************************************************************)
(* request_with_retry(method, url, headers, timeout=20,                    *)
(*                    max_retries=MAX_RETRIES)                             *)
(***************************************************************************)
\* Entry: the state of the frame when the `for` loop starts (lines 79-81).
CallRequest(m, u, maxr) ==
    /\ rpc' = "try"
    /\ method' = m
    /\ url' = u
    /\ max_retries' = maxr
    /\ attempt' = 0
    /\ last_exception' = None
    /\ outcome' = None
    /\ n_attempts' = 0
    /\ n_delays' = 0

\* The caller has taken the result: the frame is gone.
ReturnFromRequest ==
    /\ rpc' = "idle"
    /\ method' = "get"
    /\ url' = None
    /\ max_retries' = MAX_RETRIES
    /\ attempt' = 0
    /\ last_exception' = None
    /\ outcome' = None
    /\ n_attempts' = 0
    /\ n_delays' = 0

\* Variants of line 96: one retry short of the budget; retrying any error.
ShouldRetry_ShortBudget(att, maxr, e) == att < maxr - 1 /\ is_retryable_error(e)
ShouldRetry_AnyError(att, maxr, e) == att < maxr

\* line 96: retry only while the budget lasts and the error is retryable
ShouldRetry(att, maxr, e) == att < maxr /\ is_retryable_error(e)

\* Variant of lines 94-101: the first exception is kept and raised.
Propagated_First(e, stored) == IF stored = None THEN e ELSE stored

\* line 101: a bare `raise` re-raises the exception being handled, `e`;
\* `stored` is what last_exception held before line 94.
Propagated(e, stored) == e

\* Variant of line 81: range(max_retries)
InRange_Exclusive(att, maxr) == att < maxr

\* line 81: range(max_retries + 1)
InRange(att, maxr) == att < maxr + 1

\* One iteration of the loop body, lines 82-101: the request is sent and
\* either returns (line 91) or its exception is handled (lines 93-101).
RequestAttempt ==
    /\ rpc = "try"
    /\ IF Lower(method) \notin {"get", "post"}
       THEN \* line 88: ValueError is no RequestException, it propagates
            /\ rpc' = "raised"
            /\ outcome' = Raised(Exc("ValueError", 0, attempt + 1))
            /\ UNCHANGED <<last_exception, n_attempts, apis_used>>
       ELSE /\ n_attempts' = n_attempts + 1
            /\ apis_used' = apis_used \cup {url.api}
            /\ \/ \E b \in Bodies(url) :
                    /\ rpc' = "returned"
                    /\ outcome' = Response(b)
                    /\ UNCHANGED last_exception
               \/ \E e \in AttemptErrors(n_attempts + 1) :
                    /\ last_exception' = e
                    /\ IF ShouldRetry(attempt, max_retries, e)
                       THEN /\ rpc' = "sleep"
                            /\ UNCHANGED outcome
                       ELSE /\ rpc' = "raised"
                            /\ outcome' = Raised(Propagated(e, last_exception))
    /\ UNCHANGED <<method, url, max_retries, attempt, n_delays>>

\* line 99, then the next iteration of line 81 (line 103 when the range is
\* used up).
RetrySleep ==
    /\ rpc = "sleep"
    /\ n_delays' = n_delays + 1
    /\ attempt' = attempt + 1
    /\ IF InRange(attempt + 1, max_retries)
       THEN rpc' = "try" /\ UNCHANGED outcome
       ELSE rpc' = "raised" /\ outcome' = Raised(last_exception)
    /\ UNCHANGED <<method, url, max_retries, last_exception, n_attempts>>

RequestStep == RequestAttempt \/ RetrySleep

(***************************************************************************)
(* get_all_votes(option_id)                                                *)
(***************************************************************************)
VotesUrl(o, p) == [api |-> "poll/list", option_id |-> o, page |-> p]

VoteList(l) == [none |-> FALSE, list |-> l]

\* Entry: lines 213-214.
CallGetAllVotes(o) ==
    /\ gpc' = "request"
    /\ option_id' = o
    /\ all_votes' = <<>>
    /\ vpage' = 1
    /\ votes_result' = None
    /\ vote_requests' = <<>>
    /\ n_cooldowns' = 0

\* Variant of line 228: a page shorter than the others ends the listing.
IsLastVotePage_Short(list) == Len(list) < MaxPageVotes

\* line 228: an empty list is the only end of the listing
IsLastVotePage(list) == list = <<>>

\* Variant of lines 235 and 238: the votes fetched so far are returned.
FailureResult_Partial(fetched) == VoteList(fetched)

\* lines 235 and 238: `return None`, whatever has been fetched
FailureResult(fetched) == None

\* lines 216-223: the page request is issued
GavRequest ==
    /\ gpc = "request"
    /\ rpc = "idle"
    /\ gpc' = "wait"
    /\ vote_requests' = Append(vote_requests, vpage)
    /\ CallRequest("post", VotesUrl(option_id, vpage), MAX_RETRIES)
    /\ UNCHANGED <<option_id, all_votes, vpage, votes_result, n_cooldowns>>

\* lines 224-238: the response (or the exception) of the page request
GavHandle ==
    /\ gpc = "wait"
    /\ rpc \in {"returned", "raised"}
    /\ IF outcome.kind = "response" /\ outcome.body.json
          /\ outcome.body.status /\ outcome.body.code = SUCCESS_CODE
       THEN IF IsLastVotePage(outcome.body.data)
            THEN \* line 230: break, then line 240
                 /\ gpc' = "done"
                 /\ votes_result' = VoteList(all_votes)
                 /\ UNCHANGED <<all_votes, vpage>>
            ELSE /\ gpc' = "cooldown"
                 /\ all_votes' = all_votes \o outcome.body.data
                 /\ vpage' = vpage + 1
                 /\ UNCHANGED votes_result
       ELSE \* lines 235, 238: an envelope reporting a failure, a
            \* RequestException of the request, or the JSONDecodeError of
            \* response.json() (a RequestException in requests >= 2.27)
            /\ gpc' = "done"
            /\ votes_result' = FailureResult(all_votes)
            /\ UNCHANGED <<all_votes, vpage>>
    /\ ReturnFromRequest
    /\ UNCHANGED <<option_id, vote_requests, n_cooldowns>>

\* line 239
GavCooldown ==
    /\ gpc = "cooldown"
    /\ gpc' = "request"
    /\ n_cooldowns' = n_cooldowns + 1
    /\ UNCHANGED <<option_id, all_votes, vpage, votes_result, vote_requests>>

(***************************************************************************)
(* Addresses.  A CKB address string is the encoding of a network prefix    *)
(* and a lock script; the encoding is one-to-one, so an address is held as *)
(* what it encodes.  "" is the empty string.                               *)
(***************************************************************************)
Address(hrp, lock, args) == [hrp |-> hrp, lock |-> lock, args |-> args]
EmptyAddress == Address("", "", <<>>)
NativeAddress(name) == Address("ckb", "secp256k1_blake160", <<name>>)

(***************************************************************************)
(* Capacities.  The explorer reports a capacity in shannons as a decimal   *)
(* string; the script turns it into a Python float (IEEE-754 double) and   *)
(* adds floats.  A number of shannons is held as <<ckb, shannon>>, that is *)
(* ckb * 10^8 + shannon with 0 <= shannon < 10^8, so that amounts beyond   *)
(* 2^31 can be written.                                                    *)
(***************************************************************************)
Shannons(ckb, sh) == <<ckb, sh>>
Zero == Shannons(0, 0)

ExactAdd(a, b) ==
    LET lo == a[2] + b[2] IN
    <<a[1] + b[1] + (lo \div SHANNONS_PER_CKB), lo % SHANNONS_PER_CKB>>

Less(a, b) == a[1] < b[1] \/ (a[1] = b[1] /\ a[2] < b[2])

\* 2^53 .. 2^57 shannons
Pow2(k) ==
    CASE k = 53 -> Shannons(90071992, 54740992)
      [] k = 54 -> Shannons(180143985, 9481984)
      [] k = 55 -> Shannons(360287970, 18963968)
      [] k = 56 -> Shannons(720575940, 37927936)
      [] k = 57 -> Shannons(1441151880, 75855872)

\* distance between neighbouring doubles at the magnitude of v (v < 2^58):
\* a double has a 53-bit significand
Ulp(v) ==
    IF Less(v, Pow2(53)) THEN 1
    ELSE IF Less(v, Pow2(54)) THEN 2
    ELSE IF Less(v, Pow2(55)) THEN 4
    ELSE IF Less(v, Pow2(56)) THEN 8
    ELSE IF Less(v, Pow2(57)) THEN 16
    ELSE 32

\* the double nearest to the integer v, ties to the even significand.
\* 10^8 is a multiple of 2 * Ulp(v), so the remainder and the parity of the
\* significand can be read from the shannon part.
RoundToDouble(v) ==
    LET g    == Ulp(v)
        r    == v[2] % g
        down == <<v[1], v[2] - r>>
        up   == ExactAdd(down, Shannons(0, g))
    IN  IF r = 0 THEN v
        ELSE IF 2 * r < g THEN down
        ELSE IF 2 * r > g THEN up
        ELSE IF ((v[2] - r) \div g) % 2 = 0 THEN down ELSE up

\* line 292: float(attributes.get("capacity", 0))
ParseFloat(capacity) == RoundToDouble(capacity)

\* line 293: total_capacity += capacity, on floats
FloatAdd(a, b) == RoundToDouble(ExactAdd(a, b))

\* Variant of line 311: the whole-CKB part less one.
FloorCkb_Below(total) == total[1] - 1

\* line 311: math.floor(total_capacity / (10**8)).  The quotient of a double
\* below 2^58 by 10^8 never rounds up to the next integer, so the floor is
\* the whole-CKB part of the double.
FloorCkb(total) == total[1]

Cell(type, capacity) == [cell_type |-> type, capacity |-> capacity]

\* Variant of line 291: the capacity of every cell is added.
AddCell_AnyType(total, cell) == FloatAdd(total, ParseFloat(cell.capacity))

\* lines 291-293: one cell of the page
AddCell(total, cell) ==
    IF cell.cell_type = "nervos_dao_deposit"
    THEN FloatAdd(total, ParseFloat(cell.capacity))
    ELSE total

\* lines 289-293: the loop over the cells of one page, first cell first.
\* (The running sum is bound as the element of a one-element set so that TLC
\* computes it once, before it is used.)
SumDeposits(total, cells) ==
    LET acc[i \in 0..Len(cells)] ==
            IF i = 0 THEN total
            ELSE CHOOSE next \in {AddCell(prev, cells[i]) : prev \in {acc[i - 1]}} :
                     TRUE
    IN  acc[Len(cells)]

(***************************************************************************)
(* get_address_onchain_weight(address)                                     *)
(***************************************************************************)
CellsUrl(a, p, size) ==
    [api |-> "address_live_cells", address |-> a, page |-> p, page_size |-> size]

\* Entry: lines 278-280.
CallGetWeight(a) ==
    /\ wpc' = "request"
    /\ address' = a
    /\ total_capacity' = Zero
    /\ wpage' = 1
    /\ weight_result' = 0
    /\ cell_requests' = <<>>
    /\ failed_page' = 0
    /\ caught' = None

\* Variant of line 295: only an empty page ends the listing.
IsLastCellPage_Empty(data, size) == Len(data) = 0

\* Variant of line 295: a full page ends the listing as well.
IsLastCellPage_Full(data, size) == Len(data) <= size

\* line 295: a page shorter than page_size is the last one
IsLastCellPage(data, size) == Len(data) < size

\* lines 284-286: the page request is issued
GawRequest ==
    /\ wpc = "request"
    /\ rpc = "idle"
    /\ wpc' = "wait"
    /\ cell_requests' = Append(cell_requests, wpage)
    /\ CallRequest("get", CellsUrl(address, wpage, PAGE_SIZE), MAX_RETRIES)
    /\ UNCHANGED <<address, total_capacity, wpage, weight_result, failed_page,
                   caught>>

\* lines 287-307, then line 311 when the loop is left: the response (or the
\* exception) of the page request
GawHandle ==
    /\ wpc = "wait"
    /\ rpc \in {"returned", "raised"}
    /\ IF outcome.kind = "response" /\ outcome.body.json
       THEN LET data == outcome.body.data
                summed == SumDeposits(total_capacity, data)
            IN  /\ total_capacity' = summed
                /\ IF IsLastCellPage(data, PAGE_SIZE)
                   THEN /\ wpc' = "done"
                        /\ weight_result' = FloorCkb(summed)
                        /\ UNCHANGED wpage
                   ELSE /\ wpc' = "cooldown"
                        /\ wpage' = wpage + 1
                        /\ UNCHANGED weight_result
                /\ UNCHANGED <<failed_page, caught>>
       ELSE \* lines 298-307: a RequestException (404 or not) or a body that
            \* does not decode: break with what has been summed
            /\ wpc' = "done"
            /\ weight_result' = FloorCkb(total_capacity)
            /\ failed_page' = wpage
            /\ caught' = IF outcome.kind = "exception" THEN outcome.exc
                          ELSE Exc("JSONDecodeError", 0, n_attempts)
            /\ UNCHANGED <<total_capacity, wpage>>
    /\ ReturnFromRequest
    /\ UNCHANGED <<address, cell_requests>>

\* line 308
GawCooldown ==
    /\ wpc = "cooldown"
    /\ wpc' = "request"
    /\ UNCHANGED <<address, total_capacity, wpage, weight_result, cell_requests,
                   failed_page, caught>>

(***************************************************************************)
(* metamask_to_ckb_address(metamask_address, mainnet)                      *)
(* A key is the sequence of its characters.                                *)
(***************************************************************************)
HexDigits == {"0", "1", "2", "3", "4", "5", "6", "7", "8", "9",
              "a", "b", "c", "d", "e", "f"}

\* str.lower(), on the characters a key is made of
LowerChar(c) ==
    CASE c = "A" -> "a" [] c = "B" -> "b" [] c = "C" -> "c"
      [] c = "D" -> "d" [] c = "E" -> "e" [] c = "F" -> "f"
      [] c = "X" -> "x" [] OTHER -> c

LowerStr(str) == [i \in 1..Len(str) |-> LowerChar(str[i])]

\* line 200: the "0x" prefix, if any, is cut off
StripPrefix(key) ==
    IF Len(key) >= 2 /\ key[1] = "0" /\ key[2] = "x"
    THEN SubSeq(key, 3, Len(key)) ELSE key

\* bytearray.fromhex accepts an even number of hexadecimal digits
IsHexString(str) == Len(str) % 2 = 0 /\ \A i \in 1..Len(str) : str[i] \in HexDigits

\* lines 200-201: the bytes are held as their lower-case hexadecimal digits
PwLockArgs(key) == LowerStr(StripPrefix(key))

\* line 201 raises ValueError
MetamaskRaises(key) == key # <<>> /\ ~IsHexString(PwLockArgs(key))

\* Variant of line 191: the test network is never selected.
ConfigAfter_NeverTestnet(key, mainnet, config) ==
    IF key = <<>> THEN config ELSE IF mainnet THEN "mainnet" ELSE config

\* line 191: the value pyckb.config.current has after the call
ConfigAfter(key, mainnet, config) ==
    IF key = <<>> THEN config ELSE IF mainnet THEN "mainnet" ELSE "testnet"

\* Script.addr(): the address of a script on the configured network
ScriptAddr(config, lock, args) ==
    Address(IF config = "mainnet" THEN "ckb" ELSE "ckt", lock, args)

\* lines 186-207, for a key line 201 accepts
metamask_to_ckb_address(key, mainnet, config) ==
    IF key = <<>> THEN EmptyAddress
    ELSE ScriptAddr(ConfigAfter(key, mainnet, config), "pw_lock", PwLockArgs(key))

Conversion(key, mainnet, a) == [key |-> key, mainnet |-> mainnet, address |-> a]

\* lines 186-207 as a step: one call of metamask_to_ckb_address.  A call
\* that raises at line 201 has set the configuration and returns nothing.
MetamaskCall(key, mainnet) ==
    /\ pyckb_config' = ConfigAfter(key, mainnet, pyckb_config)
    /\ conversions' =
          IF MetamaskRaises(key) THEN conversions
          ELSE Append(conversions,
                      Conversion(key, mainnet,
                                 metamask_to_ckb_address(key, mainnet, pyckb_config)))

(***************************************************************************)
(* get_user_dao_addresses(user_id)                                         *)
(***************************************************************************)
ProfileUrl(u) == [api |-> "profile", user_id |-> u]

Range(seq) == {seq[i] : i \in 1..Len(seq)}

\* Entry: line 249.
CallGetAddresses(u) ==
    /\ upc' = "request"
    /\ user_id' = u
    /\ addresses_result' = <<>>
    /\ UNCHANGED <<pyckb_config, conversions>>

ReturnFromAddresses ==
    /\ upc' = "idle"
    /\ user_id' = 0
    /\ addresses_result' = <<>>
    /\ UNCHANGED <<pyckb_config, conversions>>

\* Variant of line 262: the derived address is appended without looking it up
\* in the list.
WithDerived_NoLookup(native, pwlock_address) ==
    IF pwlock_address # EmptyAddress
    THEN Append(native, pwlock_address) ELSE native

\* lines 260-264: the derived address joins the list unless it is empty or
\* already in it
WithDerived(native, pwlock_address) ==
    IF pwlock_address # EmptyAddress /\ pwlock_address \notin Range(native)
    THEN Append(native, pwlock_address) ELSE native

\* lines 251-252: the profile request is issued
GudaRequest ==
    /\ upc = "request"
    /\ rpc = "idle"
    /\ upc' = "wait"
    /\ CallRequest("get", ProfileUrl(user_id), MAX_RETRIES)
    /\ UNCHANGED <<pyckb_config, conversions, user_id, addresses_result>>

\* lines 253-272: the response (or the exception) of the profile request
GudaHandle ==
    /\ upc = "wait"
    /\ rpc \in {"returned", "raised"}
    /\ IF outcome.kind = "response" /\ outcome.body.json
          /\ outcome.body.status /\ outcome.body.code = SUCCESS_CODE
       THEN LET user_data == outcome.body.data
                native == user_data.neuron_addresses
                web3_public_key == user_data.web3_public_key
            IN  IF web3_public_key = <<>>
                THEN \* line 259: no key, no conversion
                     /\ upc' = "done"
                     /\ addresses_result' = native
                     /\ UNCHANGED <<pyckb_config, conversions>>
                ELSE \* line 260
                     /\ MetamaskCall(web3_public_key, TRUE)
                     /\ IF MetamaskRaises(web3_public_key)
                        THEN \* the ValueError of line 201 is not caught at
                             \* line 270
                             /\ upc' = "raised"
                             /\ addresses_result' = <<>>
                        ELSE /\ upc' = "done"
                             /\ addresses_result' =
                                   WithDerived(native,
                                       metamask_to_ckb_address(web3_public_key,
                                                               TRUE, pyckb_config))
       ELSE \* lines 268-269, 270-272
            /\ upc' = "done"
            /\ addresses_result' = <<>>
            /\ UNCHANGED <<pyckb_config, conversions>>
    /\ ReturnFromRequest
    /\ UNCHANGED user_id

(***************************************************************************)
(* process_option(option_id, ...)                                          *)
(***************************************************************************)
ReturnFromVotes ==
    /\ gpc' = "idle" /\ option_id' = 0 /\ all_votes' = <<>> /\ vpage' = 1
    /\ votes_result' = None /\ vote_requests' = <<>> /\ n_cooldowns' = 0

ReturnFromWeight ==
    /\ wpc' = "idle" /\ address' = EmptyAddress /\ total_capacity' = Zero
    /\ wpage' = 1 /\ weight_result' = 0 /\ cell_requests' = <<>>
    /\ failed_page' = 0 /\ caught' = None

\* Variant of line 371: weight_calc is the weight of the first address.
Enriched_FirstWeight(vote, list, calc) ==
    [user_id |-> vote.user_id, weight |-> vote.weight,
     weight_list |-> list,
     weight_calc |-> IF list = <<>> THEN 0 ELSE list[1].Weight]

\* lines 350-351, 358-359, 370-371: vote["weight_list"], vote["weight_calc"]
Enriched(vote, list, calc) ==
    [user_id |-> vote.user_id, weight |-> vote.weight,
     weight_list |-> list, weight_calc |-> calc]

WeightItem(a, w) == [address |-> a, Weight |-> w]

\* Variant of line 401: a difference of one CKB is let through.
NeedReview_Tolerance(reported, onchain) ==
    reported - onchain > 1 \/ onchain - reported > 1

\* line 401: total_weight_metaforo != math.floor(total_weight_onchain); the
\* total is an integer, its floor is itself
NeedReview(reported, onchain) == reported # onchain

\* lines 405-426: one record; `vote` is the position of the vote in the list
Record(vote, userid, reported, onchain, a, w, review) ==
    [vote |-> vote, userid |-> userid, total_weight_metaforo |-> reported,
     total_weight_onchain |-> onchain, address |-> a, address_weight |-> w,
     need_review |-> review]

\* Variant of lines 416-426: a vote without addresses yields no record.
VoteRecords_NoSentinel(i, vote) ==
    LET need_review == NeedReview(vote.weight, vote.weight_calc)
        list == vote.weight_list
    IN  [j \in 1..Len(list) |->
            Record(i, vote.user_id, vote.weight, vote.weight_calc,
                   list[j].address, list[j].Weight, need_review)]

\* lines 394-426: the records of one vote
VoteRecords(i, vote) ==
    LET need_review == NeedReview(vote.weight, vote.weight_calc)
        list == vote.weight_list
    IN  IF list # <<>>
        THEN [j \in 1..Len(list) |->
                 Record(i, vote.user_id, vote.weight, vote.weight_calc,
                        list[j].address, list[j].Weight, need_review)]
        ELSE <<Record(i, vote.user_id, vote.weight, vote.weight_calc,
                      EmptyAddress, 0, need_review)>>

\* Variant of lines 393-426: the records of a later vote come first.
ExportData_Reversed(votes) ==
    LET acc[i \in 0..Len(votes)] ==
            IF i = 0 THEN <<>> ELSE VoteRecords(i, votes[i]) \o acc[i - 1]
    IN  acc[Len(votes)]

\* lines 393-426
ExportData(votes) ==
    LET acc[i \in 0..Len(votes)] ==
            IF i = 0 THEN <<>> ELSE acc[i - 1] \o VoteRecords(i, votes[i])
    IN  acc[Len(votes)]

\* Variant of lines 428-451: every batch is filed under the same option.
Batch_SameOption(o, records) == [option_id |-> 1, records |-> records]

Batch(o, records) == [option_id |-> o, records |-> records]
Written(n) == [none |-> FALSE, batch |-> n]

\* line 331
PoStart ==
    /\ ppc = "start"
    /\ gpc = "idle"
    /\ ppc' = "wait_votes"
    /\ CallGetAllVotes(po_option_id)
    /\ UNCHANGED <<po_option_id, voters_data, vi, addresses, ai, weight_list,
                   total_onchain_weight, files, exports>>

\* lines 331-345: get_all_votes has returned
PoVotes ==
    /\ ppc = "wait_votes"
    /\ gpc = "done"
    /\ IF votes_result.none \/ votes_result.list = <<>>
       THEN \* lines 332-334: `if not voters_data: return None`
            /\ ppc' = "done"
            /\ files' = None
            /\ UNCHANGED <<voters_data, vi>>
       ELSE /\ ppc' = "voter"
            /\ voters_data' = votes_result.list
            /\ vi' = 1
            /\ UNCHANGED files
    /\ ReturnFromVotes
    /\ UNCHANGED <<po_option_id, addresses, ai, weight_list,
                   total_onchain_weight, exports>>

\* lines 346-355: the head of the loop over the votes
PoVoter ==
    /\ ppc = "voter"
    /\ upc = "idle"
    /\ IF vi > Len(voters_data)
       THEN /\ ppc' = "export"
            /\ UNCHANGED <<voters_data, vi, gudaVars>>
       ELSE IF voters_data[vi].user_id = 0
       THEN \* lines 349-352: no user id
            /\ voters_data' = [voters_data EXCEPT ![vi] = Enriched(@, <<>>, 0)]
            /\ vi' = vi + 1
            /\ UNCHANGED <<ppc, gudaVars>>
       ELSE /\ ppc' = "wait_addresses"
            /\ CallGetAddresses(voters_data[vi].user_id)
            /\ UNCHANGED <<voters_data, vi>>
    /\ UNCHANGED <<po_option_id, addresses, ai, weight_list,
                   total_onchain_weight, files, exports>>

\* lines 355-363: get_user_dao_addresses has returned or raised
PoAddresses ==
    /\ ppc = "wait_addresses"
    /\ upc \in {"done", "raised"}
    /\ IF upc = "raised"
       THEN /\ ppc' = "raised"
            /\ UNCHANGED <<voters_data, vi, addresses, ai, weight_list,
                           total_onchain_weight>>
       ELSE IF addresses_result = <<>>
       THEN \* lines 356-360
            /\ ppc' = "voter"
            /\ voters_data' = [voters_data EXCEPT ![vi] = Enriched(@, <<>>, 0)]
            /\ vi' = vi + 1
            /\ UNCHANGED <<addresses, ai, weight_list, total_onchain_weight>>
       ELSE /\ ppc' = "address"
            /\ addresses' = addresses_result
            /\ ai' = 1
            /\ weight_list' = <<>>
            /\ total_onchain_weight' = 0
            /\ UNCHANGED <<voters_data, vi>>
    /\ ReturnFromAddresses
    /\ UNCHANGED <<po_option_id, files, exports>>

\* lines 364-365, and lines 370-371 when the addresses are exhausted
PoAddress ==
    /\ ppc = "address"
    /\ wpc = "idle"
    /\ IF ai > Len(addresses)
       THEN /\ ppc' = "voter"
            /\ voters_data' = [voters_data EXCEPT
                                  ![vi] = Enriched(@, weight_list,
                                                   total_onchain_weight)]
            /\ vi' = vi + 1
            /\ addresses' = <<>>
            /\ ai' = 1
            /\ weight_list' = <<>>
            /\ total_onchain_weight' = 0
            /\ UNCHANGED gawVars
       ELSE /\ ppc' = "wait_weight"
            /\ CallGetWeight(addresses[ai])
            /\ UNCHANGED <<voters_data, vi, addresses, ai, weight_list,
                           total_onchain_weight>>
    /\ UNCHANGED <<po_option_id, files, exports>>

\* lines 365-368: get_address_onchain_weight has returned
PoWeight ==
    /\ ppc = "wait_weight"
    /\ wpc = "done"
    /\ ppc' = "address"
    /\ weight_list' = Append(weight_list, WeightItem(addresses[ai], weight_result))
    /\ total_onchain_weight' = total_onchain_weight + weight_result
    /\ ai' = ai + 1
    /\ ReturnFromWeight
    /\ UNCHANGED <<po_option_id, voters_data, vi, addresses, files, exports>>

\* lines 375-453: the records are built and the two files are written
PoExport ==
    /\ ppc = "export"
    /\ ppc' = "done"
    /\ exports' = Append(exports, Batch(po_option_id, ExportData(voters_data)))
    /\ files' = Written(Len(exports) + 1)
    /\ UNCHANGED <<po_option_id, voters_data, vi, addresses, ai, weight_list,
                   total_onchain_weight>>

(***************************************************************************)
(* parse_thread_id_from_url(url) and int(arg).  A string is the sequence   *)
(* of its characters.                                                      *)
(***************************************************************************)
Digits == {"0", "1", "2", "3", "4", "5", "6", "7", "8", "9"}

DigitValue(c) ==
    CASE c = "0" -> 0 [] c = "1" -> 1 [] c = "2" -> 2 [] c = "3" -> 3
      [] c = "4" -> 4 [] c = "5" -> 5 [] c = "6" -> 6 [] c = "7" -> 7
      [] c = "8" -> 8 [] c = "9" -> 9

\* int() of a string of decimal digits
DecimalValue(str) ==
    LET acc[i \in 0..Len(str)] ==
            IF i = 0 THEN 0 ELSE 10 * acc[i - 1] + DigitValue(str[i])
    IN  acc[Len(str)]

\* str.rstrip('/')
RStripSlash(str) ==
    LET kept == {n \in 0..Len(str) : \A i \in (n + 1)..Len(str) : str[i] = "/"}
        n    == CHOOSE m \in kept : \A o \in kept : m <= o
    IN  SubSeq(str, 1, n)

\* the match of r'(\d+)$': the longest run of digits the string ends with
TrailingDigits(str) ==
    LET runs == {n \in 1..(Len(str) + 1) : \A i \in n..Len(str) : str[i] \in Digits}
        n    == CHOOSE m \in runs : \A o \in runs : m <= o
    IN  SubSeq(str, n, Len(str))

\* Variant of line 124: digits anywhere in the URL are taken for a match.
ParseThreadIdRaises_AnyDigit(u) == \A i \in 1..Len(u) : u[i] \notin Digits

\* line 127: ValueError
ParseThreadIdRaises(u) == TrailingDigits(RStripSlash(u)) = <<>>

\* lines 124-126
parse_thread_id_from_url(u) == DecimalValue(TrailingDigits(RStripSlash(u)))

\* line 474: arg.startswith("http")
StartsWithHttp(arg) ==
    Len(arg) >= 4 /\ SubSeq(arg, 1, 4) = <<"h", "t", "t", "p">>

\* line 505: int(arg) accepts an optional sign and decimal digits; of the
\* characters in use no other string is an integer literal
Unsigned(arg) ==
    IF Len(arg) >= 1 /\ arg[1] \in {"+", "-"} THEN SubSeq(arg, 2, Len(arg)) ELSE arg

IntRaises(arg) ==
    Unsigned(arg) = <<>> \/ \E i \in 1..Len(Unsigned(arg)) : Unsigned(arg)[i] \notin Digits

\* Variant of line 505: the sign of the literal is inverted.
IntValue_Negated(arg) ==
    IF Len(arg) >= 1 /\ arg[1] = "-" THEN DecimalValue(Unsigned(arg))
    ELSE 0 - DecimalValue(Unsigned(arg))

IntValue(arg) ==
    IF Len(arg) >= 1 /\ arg[1] = "-" THEN 0 - DecimalValue(Unsigned(arg))
    ELSE DecimalValue(Unsigned(arg))

(***************************************************************************)
(* get_poll_options(thread_id)                                             *)
(***************************************************************************)
ThreadUrl(t) == [api |-> "get_thread", thread_id |-> t]

Thread(polls) == [polls |-> polls]
Poll(opts) == [options |-> opts]
Option(id, html) == [id |-> id, html |-> html]

\* Variant of lines 156-157: the options of the last poll are taken.
ConsideredOptions_LastPoll(polls) == polls[Len(polls)].options

\* lines 156-157: the options of the first poll
ConsideredOptions(polls) == polls[1].options

\* line 166: the options and the thread id
Resolved(opts, t) ==
    [none |-> FALSE,
     options |-> [k \in 1..Len(opts) |-> Option(opts[k].id, opts[k].html)],
     thread_id |-> t]

\* Variant of lines 159-161: an empty option list is returned as a result.
NoOptions_EmptyList(t) == Resolved(<<>>, t)

\* lines 159-161: `return None`
NoOptions(t) == None

\* Entry: line 141.
CallGetPollOptions(t) ==
    /\ opc' = "request"
    /\ gpo_thread_id' = t
    /\ options_result' = None
    /\ thread_error' = None

ReturnFromPollOptions ==
    /\ opc' = "idle"
    /\ gpo_thread_id' = 0
    /\ options_result' = None
    /\ thread_error' = None

\* lines 143-144: the thread request is issued
GpoRequest ==
    /\ opc = "request"
    /\ rpc = "idle"
    /\ opc' = "wait"
    /\ CallRequest("get", ThreadUrl(gpo_thread_id), MAX_RETRIES)
    /\ UNCHANGED <<gpo_thread_id, options_result, thread_error>>

\* lines 145-173: the response (or the exception) of the thread request
GpoHandle ==
    /\ opc = "wait"
    /\ rpc \in {"returned", "raised"}
    /\ opc' = "done"
    /\ IF outcome.kind = "response" /\ outcome.body.json
          /\ outcome.body.status /\ outcome.body.code = SUCCESS_CODE
       THEN LET polls == outcome.body.data.polls IN
            /\ options_result' =
                  IF polls = <<>> THEN None              \* lines 151-153
                  ELSE IF ConsideredOptions(polls) = <<>>
                  THEN NoOptions(gpo_thread_id)
                  ELSE Resolved(ConsideredOptions(polls), gpo_thread_id)
            /\ UNCHANGED thread_error
       ELSE \* lines 168-169, 171-173
            /\ options_result' = None
            /\ thread_error' = IF outcome.kind = "exception" THEN outcome.exc
                               ELSE IF ~outcome.body.json
                               THEN Exc("JSONDecodeError", 0, n_attempts)
                               ELSE None
    /\ ReturnFromRequest
    /\ UNCHANGED gpo_thread_id

(***************************************************************************)
(* main()                                                                  *)
(***************************************************************************)
CallProcessOption(o) ==
    /\ ppc' = "start" /\ po_option_id' = o /\ voters_data' = <<>> /\ vi' = 1
    /\ addresses' = <<>> /\ ai' = 1 /\ weight_list' = <<>>
    /\ total_onchain_weight' = 0 /\ files' = None
    /\ UNCHANGED exports

ReturnFromOption ==
    /\ ppc' = "idle" /\ po_option_id' = 0 /\ voters_data' = <<>> /\ vi' = 1
    /\ addresses' = <<>> /\ ai' = 1 /\ weight_list' = <<>>
    /\ total_onchain_weight' = 0 /\ files' = None
    /\ UNCHANGED exports

\* Variant of sys.exit(status): every exit reports success.
Exit_Success(status) ==
    /\ mpc' = "exited"
    /\ exit_status' = 0

\* sys.exit(status), or the end of the script (status 0)
Exit(status) ==
    /\ mpc' = "exited"
    /\ exit_status' = status

\* lines 465-481 and 503-511: the argument is read
MainStart ==
    /\ mpc = "start"
    /\ IF argv = <<>>
       THEN \* lines 465-468
            /\ Exit(1)
            /\ UNCHANGED <<thread_id, option_calls, gpoVars, poVars>>
       ELSE LET arg == argv[1] IN
            IF StartsWithHttp(arg)
            THEN IF ParseThreadIdRaises(arg)
                 THEN \* lines 479-481
                      /\ Exit(1)
                      /\ UNCHANGED <<thread_id, option_calls, gpoVars, poVars>>
                 ELSE \* lines 477-483
                      /\ mpc' = "resolve"
                      /\ thread_id' = parse_thread_id_from_url(arg)
                      /\ CallGetPollOptions(parse_thread_id_from_url(arg))
                      /\ UNCHANGED <<exit_status, option_calls, poVars>>
            ELSE IF IntRaises(arg)
                 THEN \* lines 506-508
                      /\ Exit(1)
                      /\ UNCHANGED <<thread_id, option_calls, gpoVars, poVars>>
                 ELSE \* lines 505, 510-511
                      /\ mpc' = "wait_single"
                      /\ CallProcessOption(IntValue(arg))
                      /\ option_calls' = Append(option_calls, IntValue(arg))
                      /\ UNCHANGED <<thread_id, exit_status, gpoVars>>
    /\ UNCHANGED <<argv, options, oi, all_files>>

\* lines 483-490: get_poll_options has returned
MainResolved ==
    /\ mpc = "resolve"
    /\ opc = "done"
    /\ IF options_result = None
       THEN \* lines 484-486
            /\ Exit(1)
            /\ UNCHANGED <<options, thread_id, oi, all_files>>
       ELSE /\ mpc' = "option"
            /\ options' = options_result.options
            /\ thread_id' = options_result.thread_id
            /\ oi' = 1
            /\ all_files' = <<>>
            /\ UNCHANGED exit_status
    /\ ReturnFromPollOptions
    /\ UNCHANGED <<argv, option_calls>>

\* lines 491-494, and lines 498-502 when the options are exhausted
MainOption ==
    /\ mpc = "option"
    /\ ppc = "idle"
    /\ IF oi > Len(options)
       THEN /\ Exit(0)
            /\ UNCHANGED <<option_calls, poVars>>
       ELSE /\ mpc' = "wait_option"
            /\ CallProcessOption(options[oi].id)
            /\ option_calls' = Append(option_calls, options[oi].id)
            /\ UNCHANGED exit_status
    /\ UNCHANGED <<argv, thread_id, options, oi, all_files>>

\* lines 494-496: process_option has returned, or raised
MainOptionDone ==
    /\ mpc = "wait_option"
    /\ ppc \in {"done", "raised"}
    /\ IF ppc = "raised"
       THEN \* an uncaught exception ends the script with status 1
            /\ Exit(1)
            /\ UNCHANGED <<oi, all_files>>
       ELSE /\ mpc' = "option"
            /\ oi' = oi + 1
            /\ all_files' = IF files # None THEN Append(all_files, files.batch)
                            ELSE all_files
            /\ UNCHANGED exit_status
    /\ ReturnFromOption
    /\ UNCHANGED <<argv, thread_id, options, option_calls>>

\* line 511: process_option has returned, or raised; the script ends
MainSingleDone ==
    /\ mpc = "wait_single"
    /\ ppc \in {"done", "raised"}
    /\ Exit(IF ppc = "raised" THEN 1 ELSE 0)
    /\ ReturnFromOption
    /\ UNCHANGED <<argv, thread_id, options, oi, all_files, option_calls>>

(***************************************************************************)
(* Frames at rest                                                          *)
(***************************************************************************)
RequestIdle ==
    /\ rpc = "idle" /\ method = "get" /\ url = None
    /\ max_retries = MAX_RETRIES /\ attempt = 0 /\ last_exception = None
    /\ outcome = None /\ n_attempts = 0 /\ n_delays = 0

GetAllVotesIdle ==
    /\ gpc = "idle" /\ option_id = 0 /\ all_votes = <<>> /\ vpage = 1
    /\ votes_result = None /\ vote_requests = <<>> /\ n_cooldowns = 0

GetWeightIdle ==
    /\ wpc = "idle" /\ address = EmptyAddress /\ total_capacity = Zero
    /\ wpage = 1 /\ weight_result = 0 /\ cell_requests = <<>>
    /\ failed_page = 0 /\ caught = None

NetworkUnused == apis_used = {}

GetPollOptionsIdle ==
    /\ opc = "idle" /\ gpo_thread_id = 0 /\ options_result = None
    /\ thread_error = None

\* main is not running: the function under study is called on its own
MainIdle ==
    /\ mpc = "idle" /\ argv = <<>> /\ thread_id = 0 /\ options = <<>>
    /\ oi = 1 /\ all_files = <<>> /\ exit_status = None /\ option_calls = <<>>

GetAddressesIdle ==
    /\ pyckb_config = "mainnet" /\ conversions = <<>>
    /\ upc = "idle" /\ user_id = 0 /\ addresses_result = <<>>

ProcessOptionIdle ==
    /\ ppc = "idle" /\ po_option_id = 0 /\ voters_data = <<>> /\ vi = 1
    /\ addresses = <<>> /\ ai = 1 /\ weight_list = <<>>
    /\ total_onchain_weight = 0 /\ files = None /\ exports = <<>>

(***************************************************************************)
(* Remote data the specifications start from                               *)
(***************************************************************************)
Vote(u, w) == [user_id |-> u, weight |-> w]

\* a list cut into pages of `size` entries, as a paginating server does
RECURSIVE Paginate(_, _)
Paginate(list, size) ==
    IF list = <<>> THEN <<>>
    ELSE IF Len(list) <= size THEN <<list>>
    ELSE <<SubSeq(list, 1, size)>> \o Paginate(SubSeq(list, size + 1, Len(list)), size)

\* n votes of n different voters
NumberedVotes(n) == [k \in 1..n |-> Vote(k, 10 * k)]

VoteSources ==
    {Paginate(NumberedVotes(n), size) :
        n \in 0..(MaxVotePages * MaxPageVotes), size \in 1..MaxPageVotes}

NoChain == [a \in {} |-> <<>>]
NoProfiles == [u \in {} |-> <<>>]
NoThreads == [t \in {} |-> <<>>]
\* every listing ends
AllEnd == [votes |-> {}, cells |-> {}]

(***************************************************************************)
(* SpecRetry: one call of request_with_retry, for every method and every   *)
(* retry budget up to the default.                                         *)
(***************************************************************************)
Methods == {"get", "POST", "put"}

InitRetry ==
    /\ poll_votes = [o \in {1} |-> <<<<Vote(1, 10)>>>>]
    /\ chain = NoChain
    /\ profiles = NoProfiles
    /\ threads = NoThreads
    /\ endless = AllEnd
    /\ NetworkUnused
    /\ GetPollOptionsIdle
    /\ MainIdle
    /\ rpc = "try"
    /\ method \in Methods
    /\ url = VotesUrl(1, 1)
    /\ max_retries \in 0..MAX_RETRIES
    /\ attempt = 0 /\ last_exception = None /\ outcome = None
    /\ n_attempts = 0 /\ n_delays = 0
    /\ GetAllVotesIdle
    /\ GetWeightIdle
    /\ GetAddressesIdle
    /\ ProcessOptionIdle

NextRetry ==
    \/ RequestAttempt /\ UNCHANGED <<worldVars, gavVars, gawVars, gudaVars, poVars,
                                    gpoVars, mainVars>>
    \/ RetrySleep /\ UNCHANGED <<worldVars, gavVars, gawVars, gudaVars, poVars,
                                netVars, gpoVars, mainVars>>

SpecRetry == InitRetry /\ [][NextRetry]_vars

(***************************************************************************)
(* SpecVotes: one call of get_all_votes against every vote source within   *)
(* the bounds.                                                             *)
(***************************************************************************)
InitVotes ==
    /\ \E src \in VoteSources :
          /\ Len(src) <= MaxVotePages
          /\ poll_votes = [o \in {1} |-> src]
    /\ chain = NoChain
    /\ profiles = NoProfiles
    /\ threads = NoThreads
    /\ endless = AllEnd
    /\ NetworkUnused
    /\ GetPollOptionsIdle
    /\ MainIdle
    /\ RequestIdle
    /\ gpc = "request" /\ option_id = 1 /\ all_votes = <<>> /\ vpage = 1
    /\ votes_result = None /\ vote_requests = <<>> /\ n_cooldowns = 0
    /\ GetWeightIdle
    /\ GetAddressesIdle
    /\ ProcessOptionIdle

NextVotes ==
    \/ RequestAttempt /\ UNCHANGED <<worldVars, gavVars, gawVars, gudaVars, poVars,
                                    gpoVars, mainVars>>
    \/ RetrySleep /\ UNCHANGED <<worldVars, gavVars, gawVars, gudaVars, poVars,
                                netVars, gpoVars, mainVars>>
    \/ GavRequest /\ UNCHANGED <<worldVars, gawVars, gudaVars, poVars,
                                netVars, gpoVars, mainVars>>
    \/ GavHandle /\ UNCHANGED <<worldVars, gawVars, gudaVars, poVars,
                               netVars, gpoVars, mainVars>>
    \/ GavCooldown /\ UNCHANGED <<worldVars, rwrVars, gawVars, gudaVars, poVars,
                                 netVars, gpoVars, mainVars>>

SpecVotes == InitVotes /\ [][NextVotes]_vars

(***************************************************************************)
(* SpecWeight: one call of get_address_onchain_weight for an address with  *)
(* up to MaxFullPages full pages of cells and a last, shorter page.        *)
(***************************************************************************)
Deposit(c) == Cell("nervos_dao_deposit", c)
Other(c)   == Cell("normal", c)

\* 90,071,992.99999999 CKB: above 2^53 shannons
BigCapacity == Shannons(90071992, 99999999)

FirstCells == {Deposit(BigCapacity), Deposit(Shannons(0, 50000000)),
               Other(Shannons(7, 0))}
RestCells  == {Deposit(Shannons(1, 50000000)), Other(Shannons(3, 0))}
ShortLens  == {0, 1, 7}

\* n cells: `first`, then n - 1 times `rest`
CellList(n, first, rest) == [i \in 1..n |-> IF i = 1 THEN first ELSE rest]

CellLists ==
    {CellList(k * PAGE_SIZE + r, f, c) :
        k \in 0..MaxFullPages, r \in ShortLens, f \in FirstCells, c \in RestCells}

InitWeight ==
    /\ poll_votes = [o \in {1} |-> <<>>]
    /\ \E cl \in CellLists : chain = [a \in {NativeAddress("a1")} |-> cl]
    /\ profiles = NoProfiles
    /\ threads = NoThreads
    /\ endless = AllEnd
    /\ NetworkUnused
    /\ GetPollOptionsIdle
    /\ MainIdle
    /\ RequestIdle
    /\ GetAllVotesIdle
    /\ wpc = "request" /\ address = NativeAddress("a1") /\ total_capacity = Zero
    /\ wpage = 1 /\ weight_result = 0 /\ cell_requests = <<>> /\ failed_page = 0
    /\ caught = None
    /\ GetAddressesIdle
    /\ ProcessOptionIdle

NextWeight ==
    \/ RequestAttempt /\ UNCHANGED <<worldVars, gavVars, gawVars, gudaVars, poVars,
                                    gpoVars, mainVars>>
    \/ RetrySleep /\ UNCHANGED <<worldVars, gavVars, gawVars, gudaVars, poVars,
                                netVars, gpoVars, mainVars>>
    \/ GawRequest /\ UNCHANGED <<worldVars, gavVars, gudaVars, poVars,
                                netVars, gpoVars, mainVars>>
    \/ GawHandle /\ UNCHANGED <<worldVars, gavVars, gudaVars, poVars,
                               netVars, gpoVars, mainVars>>
    \/ GawCooldown /\ UNCHANGED <<worldVars, rwrVars, gavVars, gudaVars, poVars,
                                 netVars, gpoVars, mainVars>>

SpecWeight == InitWeight /\ [][NextWeight]_vars

(***************************************************************************)
(* SpecOption: process_option for one option.  The electorate is a run of  *)
(* up to MaxVoters consecutive votes of a roster whose voters have no user *)
(* id, no address, native addresses, a wallet key, or both.                *)
(***************************************************************************)
WalletKey  == <<"0", "x", "A", "B">>
BareKey    == <<"a", "b">>
PwAddress  == Address("ckb", "pw_lock", <<"a", "b">>)

OptionProfiles ==
    [u \in 1..7 |->
        CASE u = 1 -> Profile(<<NativeAddress("a1"), NativeAddress("a2")>>, <<>>)
          [] u = 2 -> Profile(<<>>, WalletKey)
          [] u = 3 -> Profile(<<>>, <<>>)
          [] u = 4 -> Profile(<<PwAddress>>, BareKey)
          [] u = 5 -> Profile(<<NativeAddress("a2"), NativeAddress("a1")>>, <<>>)
          [] u = 6 -> Profile(<<NativeAddress("h1"), NativeAddress("h2")>>, <<>>)
          [] u = 7 -> Profile(<<NativeAddress("a2"), NativeAddress("a2")>>, <<>>)]

OptionChain ==
    [a \in {NativeAddress("a1"), NativeAddress("a2"), NativeAddress("h1"),
             NativeAddress("h2"), PwAddress} |->
        CASE a = NativeAddress("a1") ->
                CellList(PAGE_SIZE + 1, Deposit(Shannons(600, 0)), Other(Shannons(3, 0)))
          [] a = NativeAddress("a2") -> <<Deposit(Shannons(399, 0))>>
          [] a = NativeAddress("h1") -> <<Deposit(Shannons(0, 50000000))>>
          [] a = NativeAddress("h2") -> <<Deposit(Shannons(0, 50000000))>>
          [] a = PwAddress ->
                <<Deposit(Shannons(0, 50000000)), Deposit(Shannons(0, 50000000))>>]

Roster == <<Vote(1, 999), Vote(0, 50), Vote(2, 1), Vote(5, 1000), Vote(3, 0),
            Vote(6, 1), Vote(4, 1), Vote(7, 399)>>

Electorates ==
    {SubSeq(Roster, w[1], w[2]) :
        w \in {x \in (1..Len(Roster)) \X (0..Len(Roster)) :
                  x[2] - x[1] + 1 \in 0..MaxVoters}}

InitOption ==
    /\ \E votes \in Electorates :
          poll_votes = [o \in {1} |-> Paginate(votes, MaxPageVotes)]
    /\ chain = OptionChain
    /\ profiles = OptionProfiles
    /\ threads = NoThreads
    /\ endless = AllEnd
    /\ NetworkUnused
    /\ GetPollOptionsIdle
    /\ MainIdle
    /\ RequestIdle
    /\ GetAllVotesIdle
    /\ GetWeightIdle
    /\ GetAddressesIdle
    /\ ppc = "start" /\ po_option_id = 1 /\ voters_data = <<>> /\ vi = 1
    /\ addresses = <<>> /\ ai = 1 /\ weight_list = <<>>
    /\ total_onchain_weight = 0 /\ files = None /\ exports = <<>>

NextOption ==
    \/ RequestAttempt /\ UNCHANGED <<worldVars, gavVars, gawVars, gudaVars, poVars,
                                    gpoVars, mainVars>>
    \/ RetrySleep /\ UNCHANGED <<worldVars, gavVars, gawVars, gudaVars, poVars,
                                netVars, gpoVars, mainVars>>
    \/ GavRequest /\ UNCHANGED <<worldVars, gawVars, gudaVars, poVars,
                                netVars, gpoVars, mainVars>>
    \/ GavHandle /\ UNCHANGED <<worldVars, gawVars, gudaVars, poVars,
                               netVars, gpoVars, mainVars>>
    \/ GavCooldown /\ UNCHANGED <<worldVars, rwrVars, gawVars, gudaVars, poVars,
                                 netVars, gpoVars, mainVars>>
    \/ GawRequest /\ UNCHANGED <<worldVars, gavVars, gudaVars, poVars,
                                netVars, gpoVars, mainVars>>
    \/ GawHandle /\ UNCHANGED <<worldVars, gavVars, gudaVars, poVars,
                               netVars, gpoVars, mainVars>>
    \/ GawCooldown /\ UNCHANGED <<worldVars, rwrVars, gavVars, gudaVars, poVars,
                                 netVars, gpoVars, mainVars>>
    \/ GudaRequest /\ UNCHANGED <<worldVars, gavVars, gawVars, poVars,
                                 netVars, gpoVars, mainVars>>
    \/ GudaHandle /\ UNCHANGED <<worldVars, gavVars, gawVars, poVars,
                                netVars, gpoVars, mainVars>>
    \/ PoStart /\ UNCHANGED <<worldVars, rwrVars, gawVars, gudaVars,
                             netVars, gpoVars, mainVars>>
    \/ PoVotes /\ UNCHANGED <<worldVars, rwrVars, gawVars, gudaVars,
                             netVars, gpoVars, mainVars>>
    \/ PoVoter /\ UNCHANGED <<worldVars, rwrVars, gavVars, gawVars,
                             netVars, gpoVars, mainVars>>
    \/ PoAddresses /\ UNCHANGED <<worldVars, rwrVars, gavVars, gawVars,
                                 netVars, gpoVars, mainVars>>
    \/ PoAddress /\ UNCHANGED <<worldVars, rwrVars, gavVars, gudaVars,
                               netVars, gpoVars, mainVars>>
    \/ PoWeight /\ UNCHANGED <<worldVars, rwrVars, gavVars, gudaVars,
                              netVars, gpoVars, mainVars>>
    \/ PoExport /\ UNCHANGED <<worldVars, rwrVars, gavVars, gawVars, gudaVars,
                              netVars, gpoVars, mainVars>>

SpecOption == InitOption /\ [][NextOption]_vars

(***************************************************************************)
(* SpecMain: one run of the script, for arguments of every shape.  Thread  *)
(* 12 has two polls, thread 2 has none, the poll of thread 3 has no option.*)
(***************************************************************************)
Url(tail) == <<"h", "t", "t", "p", "/">> \o tail

GoodArguments ==
    {Url(<<"1", "2">>), Url(<<"v", "-", "1", "2", "/", "/">>),
     Url(<<"2">>), Url(<<"0", "3", "/">>),
     <<"1">>, <<"+", "2">>}

BadArguments ==
    {Url(<<>>), Url(<<"a", "b">>), Url(<<"1", "2", "?">>),
     <<>>, <<"a", "b">>, <<"1", "x">>, <<"-">>}

Arguments == {<<>>} \cup {<<arg>> : arg \in GoodArguments \cup BadArguments}

MainThreads ==
    [t \in {2, 3, 12} |->
        CASE t = 12 -> Thread(<<Poll(<<Option(1, "Yes"), Option(2, "No")>>),
                                Poll(<<Option(3, "Abstain")>>)>>)
          [] t = 2  -> Thread(<<>>)
          [] t = 3  -> Thread(<<Poll(<<>>)>>)]

MainVotes ==
    {[o \in 1..3 |->
        CASE o = 1 -> first
          [] o = 2 -> <<<<Vote(1, 999)>>>>
          [] o = 3 -> <<<<Vote(3, 0)>>>>] : first \in {<<>>, <<<<Vote(0, 50)>>>>}}

InitMain ==
    /\ poll_votes \in MainVotes
    /\ chain = OptionChain
    /\ profiles = OptionProfiles
    /\ threads = MainThreads
    /\ endless = AllEnd
    /\ NetworkUnused
    /\ RequestIdle
    /\ GetAllVotesIdle
    /\ GetWeightIdle
    /\ GetAddressesIdle
    /\ ProcessOptionIdle
    /\ GetPollOptionsIdle
    /\ mpc = "start" /\ argv \in Arguments /\ thread_id = 0 /\ options = <<>>
    /\ oi = 1 /\ all_files = <<>> /\ exit_status = None /\ option_calls = <<>>

NextMain ==
    \/ RequestAttempt /\ UNCHANGED <<worldVars, gavVars, gawVars, gudaVars, poVars,
                                    gpoVars, mainVars>>
    \/ RetrySleep /\ UNCHANGED <<worldVars, netVars, gavVars, gawVars, gudaVars,
                                poVars, gpoVars, mainVars>>
    \/ GavRequest /\ UNCHANGED <<worldVars, netVars, gawVars, gudaVars, poVars,
                                gpoVars, mainVars>>
    \/ GavHandle /\ UNCHANGED <<worldVars, netVars, gawVars, gudaVars, poVars,
                               gpoVars, mainVars>>
    \/ GavCooldown /\ UNCHANGED <<worldVars, netVars, rwrVars, gawVars, gudaVars,
                                 poVars, gpoVars, mainVars>>
    \/ GawRequest /\ UNCHANGED <<worldVars, netVars, gavVars, gudaVars, poVars,
                                gpoVars, mainVars>>
    \/ GawHandle /\ UNCHANGED <<worldVars, netVars, gavVars, gudaVars, poVars,
                               gpoVars, mainVars>>
    \/ GawCooldown /\ UNCHANGED <<worldVars, netVars, rwrVars, gavVars, gudaVars,
                                 poVars, gpoVars, mainVars>>
    \/ GudaRequest /\ UNCHANGED <<worldVars, netVars, gavVars, gawVars, poVars,
                                 gpoVars, mainVars>>
    \/ GudaHandle /\ UNCHANGED <<worldVars, netVars, gavVars, gawVars, poVars,
                                gpoVars, mainVars>>
    \/ PoStart /\ UNCHANGED <<worldVars, netVars, rwrVars, gawVars, gudaVars,
                             gpoVars, mainVars>>
    \/ PoVotes /\ UNCHANGED <<worldVars, netVars, rwrVars, gawVars, gudaVars,
                             gpoVars, mainVars>>
    \/ PoVoter /\ UNCHANGED <<worldVars, netVars, rwrVars, gavVars, gawVars,
                             gpoVars, mainVars>>
    \/ PoAddresses /\ UNCHANGED <<worldVars, netVars, rwrVars, gavVars, gawVars,
                                 gpoVars, mainVars>>
    \/ PoAddress /\ UNCHANGED <<worldVars, netVars, rwrVars, gavVars, gudaVars,
                               gpoVars, mainVars>>
    \/ PoWeight /\ UNCHANGED <<worldVars, netVars, rwrVars, gavVars, gudaVars,
                              gpoVars, mainVars>>
    \/ PoExport /\ UNCHANGED <<worldVars, netVars, rwrVars, gavVars, gawVars,
                              gudaVars, gpoVars, mainVars>>
    \/ GpoRequest /\ UNCHANGED <<worldVars, netVars, gavVars, gawVars, gudaVars,
                                poVars, mainVars>>
    \/ GpoHandle /\ UNCHANGED <<worldVars, netVars, gavVars, gawVars, gudaVars,
                               poVars, mainVars>>
    \/ MainStart /\ UNCHANGED <<worldVars, netVars, rwrVars, gavVars, gawVars,
                               gudaVars>>
    \/ MainResolved /\ UNCHANGED <<worldVars, netVars, rwrVars, gavVars, gawVars,
                                  gudaVars, poVars>>
    \/ MainOption /\ UNCHANGED <<worldVars, netVars, rwrVars, gavVars, gawVars,
                                gudaVars, gpoVars>>
    \/ MainOptionDone /\ UNCHANGED <<worldVars, netVars, rwrVars, gavVars, gawVars,
                                    gudaVars, gpoVars>>
    \/ MainSingleDone /\ UNCHANGED <<worldVars, netVars, rwrVars, gavVars, gawVars,
                                    gudaVars, gpoVars>>

SpecMain == InitMain /\ [][NextMain]_vars

\* the same run under the interpreter: a script that has been started
\* executes its first statements
SpecMainFair ==
    SpecMain /\ WF_vars(MainStart /\ UNCHANGED <<worldVars, netVars, rwrVars, gavVars,
                                                 gawVars, gudaVars>>)

(***************************************************************************)
(* SpecRun: the whole run, over listings that end and listings that never  *)
(* end.  A listing that never ends is followed for MaxEndlessPages pages.  *)
(* The interpreter keeps executing, and every HTTP attempt ends (with a     *)
(* response, an error or the timeout): a step that can be taken is taken.  *)
(***************************************************************************)
RunArguments == {<<Url(<<"1", "2">>)>>, <<(<<"+", "2">>)>>, <<(<<"1", "x">>)>>}

EndlessListings ==
    {[votes |-> v, cells |-> c] :
        v \in {{}, {2}}, c \in {{}, {NativeAddress("a1")}}}

InitRun ==
    /\ poll_votes \in MainVotes
    /\ chain = OptionChain
    /\ profiles = OptionProfiles
    /\ threads = MainThreads
    /\ endless \in EndlessListings
    /\ NetworkUnused
    /\ RequestIdle
    /\ GetAllVotesIdle
    /\ GetWeightIdle
    /\ GetAddressesIdle
    /\ ProcessOptionIdle
    /\ GetPollOptionsIdle
    /\ mpc = "start" /\ argv \in RunArguments /\ thread_id = 0 /\ options = <<>>
    /\ oi = 1 /\ all_files = <<>> /\ exit_status = None /\ option_calls = <<>>

NextRun ==
    \/ RequestAttempt /\ UNCHANGED <<worldVars, gavVars, gawVars, gudaVars, poVars,
                                    gpoVars, mainVars>>
    \/ RetrySleep /\ UNCHANGED <<worldVars, netVars, gavVars, gawVars, gudaVars,
                                poVars, gpoVars, mainVars>>
    \/ GavRequest /\ (option_id \in endless.votes => vpage <= MaxEndlessPages)
                  /\ UNCHANGED <<worldVars, netVars, gawVars, gudaVars, poVars,
                                gpoVars, mainVars>>
    \/ GavHandle /\ UNCHANGED <<worldVars, netVars, gawVars, gudaVars, poVars,
                               gpoVars, mainVars>>
    \/ GavCooldown /\ UNCHANGED <<worldVars, netVars, rwrVars, gawVars, gudaVars,
                                 poVars, gpoVars, mainVars>>
    \/ GawRequest /\ (address \in endless.cells => wpage <= MaxEndlessPages)
                  /\ UNCHANGED <<worldVars, netVars, gavVars, gudaVars, poVars,
                                gpoVars, mainVars>>
    \/ GawHandle /\ UNCHANGED <<worldVars, netVars, gavVars, gudaVars, poVars,
                               gpoVars, mainVars>>
    \/ GawCooldown /\ UNCHANGED <<worldVars, netVars, rwrVars, gavVars, gudaVars,
                                 poVars, gpoVars, mainVars>>
    \/ GudaRequest /\ UNCHANGED <<worldVars, netVars, gavVars, gawVars, poVars,
                                 gpoVars, mainVars>>
    \/ GudaHandle /\ UNCHANGED <<worldVars, netVars, gavVars, gawVars, poVars,
                                gpoVars, mainVars>>
    \/ PoStart /\ UNCHANGED <<worldVars, netVars, rwrVars, gawVars, gudaVars,
                             gpoVars, mainVars>>
    \/ PoVotes /\ UNCHANGED <<worldVars, netVars, rwrVars, gawVars, gudaVars,
                             gpoVars, mainVars>>
    \/ PoVoter /\ UNCHANGED <<worldVars, netVars, rwrVars, gavVars, gawVars,
                             gpoVars, mainVars>>
    \/ PoAddresses /\ UNCHANGED <<worldVars, netVars, rwrVars, gavVars, gawVars,
                                 gpoVars, mainVars>>
    \/ PoAddress /\ UNCHANGED <<worldVars, netVars, rwrVars, gavVars, gudaVars,
                               gpoVars, mainVars>>
    \/ PoWeight /\ UNCHANGED <<worldVars, netVars, rwrVars, gavVars, gudaVars,
                              gpoVars, mainVars>>
    \/ PoExport /\ UNCHANGED <<worldVars, netVars, rwrVars, gavVars, gawVars,
                              gudaVars, gpoVars, mainVars>>
    \/ GpoRequest /\ UNCHANGED <<worldVars, netVars, gavVars, gawVars, gudaVars,
                                poVars, mainVars>>
    \/ GpoHandle /\ UNCHANGED <<worldVars, netVars, gavVars, gawVars, gudaVars,
                               poVars, mainVars>>
    \/ MainStart /\ UNCHANGED <<worldVars, netVars, rwrVars, gavVars, gawVars,
                               gudaVars>>
    \/ MainResolved /\ UNCHANGED <<worldVars, netVars, rwrVars, gavVars, gawVars,
                                  gudaVars, poVars>>
    \/ MainOption /\ UNCHANGED <<worldVars, netVars, rwrVars, gavVars, gawVars,
                                gudaVars, gpoVars>>
    \/ MainOptionDone /\ UNCHANGED <<worldVars, netVars, rwrVars, gavVars, gawVars,
                                    gudaVars, gpoVars>>
    \/ MainSingleDone /\ UNCHANGED <<worldVars, netVars, rwrVars, gavVars, gawVars,
                                    gudaVars, gpoVars>>

SpecRun == InitRun /\ [][NextRun]_vars /\ WF_vars(NextRun)

(***************************************************************************)
(* SpecBridge: metamask_to_ckb_address called on its own, any number of    *)
(* times, with either network flag.  pyckb.config.current has either value *)
(* before the first call.                                                  *)
(***************************************************************************)
OddKey == <<"0", "x", "a">>

BridgeKeys == {<<>>, WalletKey, BareKey, <<"0", "x", "0", "1">>, OddKey}

InitBridge ==
    /\ poll_votes = [o \in {1} |-> <<>>]
    /\ chain = NoChain
    /\ profiles = NoProfiles
    /\ threads = NoThreads
    /\ endless = AllEnd
    /\ NetworkUnused
    /\ GetPollOptionsIdle
    /\ MainIdle
    /\ RequestIdle
    /\ GetAllVotesIdle
    /\ GetWeightIdle
    /\ pyckb_config \in {"mainnet", "testnet"}
    /\ conversions = <<>>
    /\ upc = "idle" /\ user_id = 0 /\ addresses_result = <<>>
    /\ ProcessOptionIdle

BridgeCall ==
    /\ Len(conversions) < MaxConversions
    /\ \E key \in BridgeKeys, mainnet \in BOOLEAN : MetamaskCall(key, mainnet)
    /\ UNCHANGED <<upc, user_id, addresses_result>>

NextBridge ==
    BridgeCall /\ UNCHANGED <<worldVars, netVars, rwrVars, gavVars, gawVars, poVars,
                              gpoVars, mainVars>>

SpecBridge == InitBridge /\ [][NextBridge]_vars

(***************************************************************************)
(* SpecAddresses: get_user_dao_addresses called on its own for one user,   *)
(* whose profile is any of AddressProfiles.                                *)
(***************************************************************************)
NativeLists ==
    {<<>>, <<NativeAddress("a1")>>, <<NativeAddress("a2"), NativeAddress("a1")>>,
     <<PwAddress>>, <<NativeAddress("a1"), PwAddress>>}

AddressProfiles ==
    {Profile(native, key) : native \in NativeLists,
                            key \in {<<>>, WalletKey, BareKey, OddKey}}

InitAddresses ==
    /\ poll_votes = [o \in {1} |-> <<>>]
    /\ chain = NoChain
    /\ \E p \in AddressProfiles : profiles = [u \in {1} |-> p]
    /\ threads = NoThreads
    /\ endless = AllEnd
    /\ NetworkUnused
    /\ GetPollOptionsIdle
    /\ MainIdle
    /\ RequestIdle
    /\ GetAllVotesIdle
    /\ GetWeightIdle
    /\ pyckb_config = "mainnet" /\ conversions = <<>>
    /\ upc = "request" /\ user_id = 1 /\ addresses_result = <<>>
    /\ ProcessOptionIdle

NextAddresses ==
    \/ RequestAttempt /\ UNCHANGED <<worldVars, gavVars, gawVars, gudaVars, poVars,
                                    gpoVars, mainVars>>
    \/ RetrySleep /\ UNCHANGED <<worldVars, gavVars, gawVars, gudaVars, poVars,
                                netVars, gpoVars, mainVars>>
    \/ GudaRequest /\ UNCHANGED <<worldVars, gavVars, gawVars, poVars,
                                 netVars, gpoVars, mainVars>>
    \/ GudaHandle /\ UNCHANGED <<worldVars, gavVars, gawVars, poVars,
                                netVars, gpoVars, mainVars>>

SpecAddresses == InitAddresses /\ [][NextAddresses]_vars

(***************************************************************************)
(* Properties                                                              *)
(***************************************************************************)
\* the pages of a source, one after the other
RECURSIVE Flatten(_)
Flatten(pages) == IF pages = <<>> THEN <<>> ELSE Head(pages) \o Flatten(Tail(pages))

Counting(n) == [k \in 1..n |-> k]

\* the deposit capacity of a cell list, in exact integer arithmetic
ExactDepositSum(cells) ==
    LET acc[i \in 0..Len(cells)] ==
            IF i = 0 THEN Zero
            ELSE LET prev == acc[i - 1]
                     add  == IF cells[i].cell_type = "nervos_dao_deposit"
                             THEN cells[i].capacity ELSE Zero
                 IN  IF prev = Zero THEN add ELSE ExactAdd(prev, add)
    IN  acc[Len(cells)]

\* C1: a call whose every attempt fails with a retryable error makes exactly
\* max_retries + 1 attempts and then raises; no call makes more than
\* max_retries + 1 attempts.
C1_RetryBound ==
    /\ n_attempts <= max_retries + 1
    /\ (rpc = "raised" /\ is_retryable_error(outcome.exc))
          => n_attempts = max_retries + 1
    /\ (last_exception # None /\ last_exception.at = max_retries + 1)
          => rpc = "raised"

C1_Witness ==
    /\ rpc = "raised" /\ max_retries = MAX_RETRIES
    /\ outcome.exc.cls = "HTTPError" /\ outcome.exc.status = 500
    /\ n_attempts = MAX_RETRIES + 1

\* C2: once an attempt has failed with a non-retryable error the call has
\* raised that error: no attempt follows it and no delay is inserted after
\* it, however many retryable failures came before; an unsupported method
\* raises before any request is sent.
C2_NonRetryablePropagates ==
    /\ (last_exception # None /\ ~is_retryable_error(last_exception))
          => /\ rpc = "raised"
             /\ outcome = Raised(last_exception)
             /\ last_exception.at = n_attempts
             /\ n_delays = n_attempts - 1
    /\ (rpc = "raised" /\ outcome.exc.cls = "ValueError")
          => n_attempts = 0 /\ n_delays = 0

C2_Witness ==
    /\ rpc = "raised" /\ outcome.exc.status = 404
    /\ n_attempts = 3 /\ n_delays = 2

\* C3: when the call gives up on its last permitted attempt, the exception
\* it raises is the very exception of that attempt, unwrapped.
C3_LastErrorRaised ==
    (rpc = "raised" /\ n_attempts = max_retries + 1)
        => /\ outcome.kind = "exception"
           /\ outcome.exc \in AttemptErrors(n_attempts)
           /\ outcome.exc = last_exception

C3_Witness ==
    /\ rpc = "raised" /\ max_retries = MAX_RETRIES
    /\ n_attempts = MAX_RETRIES + 1
    /\ outcome.exc = Exc("Timeout", 0, MAX_RETRIES + 1)

\* C4: get_all_votes requests the pages 1, 2, ... in order, never a page
\* after the first empty one; when it returns a list it has made n + 1
\* requests for a source of n non-empty pages and the list is the
\* concatenation of those pages.
C4_VotePagination ==
    LET n == Len(poll_votes[1]) IN
    /\ vote_requests = Counting(Len(vote_requests))
    /\ Len(vote_requests) <= n + 1
    /\ (gpc = "done" /\ ~votes_result.none)
          => /\ Len(vote_requests) = n + 1
             /\ votes_result.list = Flatten(poll_votes[1])

C4_Witness ==
    /\ gpc = "done" /\ ~votes_result.none
    /\ Len(poll_votes[1]) = 2
    /\ vote_requests = <<1, 2, 3>>
    /\ Len(votes_result.list) = 4

\* a vote-page request has failed: it raised, or its body is not a success
\* envelope
VotePageFailed ==
    /\ gpc = "wait"
    /\ rpc \in {"returned", "raised"}
    /\ \/ outcome.kind = "exception"
       \/ /\ outcome.kind = "response"
          /\ ~(outcome.body.json /\ outcome.body.status
               /\ outcome.body.code = SUCCESS_CODE)

\* C5: when the request for a vote page fails (it raises, or the envelope
\* does not report code 20000) get_all_votes returns the "no data" value; a
\* list it returns is never a part of the votes only; process_option then
\* returns None and writes no export batch.
C5_AllOrNothing ==
    /\ [][VotePageFailed => (gpc' = "done" /\ votes_result' = None)]_vars
    /\ [](gpc = "done" /\ ~votes_result.none
             => votes_result.list = Flatten(poll_votes[option_id]))
    /\ [][(ppc = "wait_votes" /\ gpc = "done" /\ votes_result.none)
             => (ppc' = "done" /\ files' = None /\ exports' = exports)]_vars
    /\ []((ppc = "done" /\ files = None) => exports = <<>>)

C5_Witness ==
    /\ ppc = "wait_votes"
    /\ gpc = "done" /\ votes_result = None
    /\ all_votes # <<>>
    /\ vote_requests = <<1, 2>>
    /\ exports = <<>>

\* C6: get_address_onchain_weight requests the pages 1, 2, ... in order and
\* none after the first page shorter than 20 cells: with n cells served in
\* pages of 20 and no failing request it makes n \div 20 + 1 requests.
C6_CellPagination ==
    LET n == Len(chain[address]) IN
    /\ cell_requests = Counting(Len(cell_requests))
    /\ Len(cell_requests) <= (n \div PAGE_SIZE) + 1
    /\ (wpc = "done" /\ failed_page = 0)
          => Len(cell_requests) = (n \div PAGE_SIZE) + 1

C6_Witness ==
    /\ wpc = "done" /\ failed_page = 0
    /\ Len(chain[address]) = 2 * PAGE_SIZE + 7
    /\ cell_requests = <<1, 2, 3>>

\* C7: with no failing request the weight is floor(S / 10^8), S the sum of
\* the capacities of the deposit cells of the address.
C7_WeightIsFloorOfSum ==
    (wpc = "done" /\ failed_page = 0)
        => weight_result = FloorCkb(ExactDepositSum(chain[address]))

NotFoundFirst == Exc("HTTPError", 404, 1)

\* C8: when the first attempt of the request for page 1 of the cells of an
\* address answers HTTP 404, the request is not repeated (one attempt, no
\* delay), get_address_onchain_weight returns 0, and process_option records
\* the weight 0 for the address and goes on with its loop.
C8_NotFoundIsZero ==
    /\ []((wpc = "wait" /\ cell_requests = <<1>> /\ last_exception = NotFoundFirst)
             => /\ rpc = "raised"
                /\ outcome = Raised(NotFoundFirst)
                /\ n_attempts = 1
                /\ n_delays = 0)
    /\ [][(wpc = "wait" /\ cell_requests = <<1>> /\ rpc = "raised"
           /\ outcome = Raised(NotFoundFirst))
             => (wpc' = "done" /\ weight_result' = 0 /\ ppc' = ppc)]_vars
    /\ [][(ppc = "wait_weight" /\ wpc = "done" /\ caught = NotFoundFirst
           /\ failed_page = 1)
             => /\ ppc' = "address"
                /\ ai' = ai + 1
                /\ weight_list' = Append(weight_list, WeightItem(addresses[ai], 0))
                /\ total_onchain_weight' = total_onchain_weight]_vars

C8_Witness ==
    /\ ppc = "wait_weight"
    /\ wpc = "done"
    /\ caught = NotFoundFirst
    /\ cell_requests = <<1>>
    /\ weight_result = 0
    /\ Len(chain[address]) > 0

\* C9: when the request for page k fails, no further page is requested and
\* the weight is floor(P / 10^8), P the deposit capacity of pages 1 .. k-1.
C9_PartialSumOnFailure ==
    (wpc = "done" /\ failed_page > 0)
        => /\ Len(cell_requests) = failed_page
           /\ LET n    == Len(chain[address])
                  seen == (failed_page - 1) * PAGE_SIZE
              IN  weight_result = FloorCkb(ExactDepositSum(
                      SubSeq(chain[address], 1, IF seen < n THEN seen ELSE n)))

\* the records of vote v in a batch
RecordsOfVote(records, v) == SelectSeq(records, LAMBDA r : r.vote = v)

\* every record names an address whose cells were all read
FullyWeighed(records) ==
    \A k \in 1..Len(records) :
        /\ records[k].address \in DOMAIN chain
        /\ records[k].address_weight
              = FloorCkb(ExactDepositSum(chain[records[k].address]))

\* the deposit capacity of the addresses the records name
ExactTotal(records) ==
    LET acc[k \in 0..Len(records)] ==
            IF k = 0 THEN Zero
            ELSE LET prev == acc[k - 1]
                     add  == ExactDepositSum(chain[records[k].address])
                 IN  IF prev = Zero THEN add ELSE ExactAdd(prev, add)
    IN  acc[Len(records)]

\* C10: for every vote of a batch whose addresses were all weighed, the
\* need_review flag of its records is true exactly when the reported weight
\* differs from the floor of the on-chain total of the voter, the deposit
\* capacity of all the voter's addresses together.
C10_NeedsReview ==
    \A b \in 1..Len(exports) :
        LET records == exports[b].records IN
        \A k \in 1..Len(records) :
            LET mine == RecordsOfVote(records, records[k].vote) IN
            FullyWeighed(mine)
                => records[k].need_review
                     = (records[k].total_weight_metaforo
                          # FloorCkb(ExactTotal(mine)))

\* What the records do satisfy: the flag is the strict comparison of the
\* two totals the record carries, and the records of one vote agree.
RecordsAgree ==
    \A b \in 1..Len(exports) :
        LET records == exports[b].records IN
        \A k \in 1..Len(records) :
            /\ records[k].need_review
                 = (records[k].total_weight_metaforo
                      # records[k].total_weight_onchain)
            /\ \A q \in 1..Len(records) :
                  records[q].vote = records[k].vote
                     => /\ records[q].need_review = records[k].need_review
                        /\ records[q].total_weight_onchain
                             = records[k].total_weight_onchain

\* C11: the on-chain total a vote's records carry is the floor of the
\* deposit capacity of all the voter's addresses together: no address's
\* amount is floored before the amounts are added.
C11_FloorOnlyAtExport ==
    \A b \in 1..Len(exports) :
        LET records == exports[b].records IN
        \A k \in 1..Len(records) :
            LET mine == RecordsOfVote(records, records[k].vote) IN
            FullyWeighed(mine)
                => records[k].total_weight_onchain = FloorCkb(ExactTotal(mine))

\* the batch process_option has just written
LastBatch == exports[Len(exports)]

ProcessOptionWrote == ppc = "done" /\ files # None

AddressesOf(list) == [j \in 1..Len(list) |-> list[j].address]

\* sum over the votes of max(1, number of addresses)
ExpectedRecords(votes) ==
    LET acc[i \in 0..Len(votes)] ==
            IF i = 0 THEN 0
            ELSE acc[i - 1] + (IF votes[i].weight_list = <<>> THEN 1
                               ELSE Len(votes[i].weight_list))
    IN  acc[Len(votes)]

\* C12: the weight list of a vote follows the resolved address list, entry
\* by entry; the batch holds, for every listed vote, one record per entry of
\* that list in its order, or one sentinel record (empty address, weight 0)
\* when the list is empty: sum over the votes of max(1, addresses) records.
C12_RecordsPerAddress ==
    /\ [](ppc \in {"address", "wait_weight"}
            => AddressesOf(weight_list) = SubSeq(addresses, 1, ai - 1))
    /\ [][(ppc = "address" /\ ai > Len(addresses))
            => AddressesOf(voters_data'[vi].weight_list) = addresses]_vars
    /\ [](ProcessOptionWrote =>
            LET records == LastBatch.records IN
            /\ Len(voters_data) = Len(Flatten(poll_votes[po_option_id]))
            /\ Len(records) = ExpectedRecords(voters_data)
            /\ \A i \in 1..Len(voters_data) :
                  LET mine == RecordsOfVote(records, i)
                      list == voters_data[i].weight_list
                  IN  IF list = <<>>
                      THEN /\ Len(mine) = 1
                           /\ mine[1].address = EmptyAddress
                           /\ mine[1].address_weight = 0
                      ELSE AddressesOf(mine) = AddressesOf(list))

C12_Witness ==
    /\ ProcessOptionWrote
    /\ Len(voters_data) = 2
    /\ Len(voters_data[1].weight_list) = 2
    /\ voters_data[2].weight_list = <<>>
    /\ Len(LastBatch.records) = 3

\* the address weights the records list, added up
SumOfAddressWeights(records) ==
    LET acc[k \in 0..Len(records)] ==
            IF k = 0 THEN 0 ELSE acc[k - 1] + records[k].address_weight
    IN  acc[Len(records)]

\* C13: in every batch, the on-chain total on each record of a vote with at
\* least one address is the sum of the floored address weights on the
\* records of that vote.
C13_TotalIsSumOfFloors ==
    \A b \in 1..Len(exports) :
        LET records == exports[b].records IN
        \A k \in 1..Len(records) :
            records[k].address # EmptyAddress
                => records[k].total_weight_onchain
                     = SumOfAddressWeights(RecordsOfVote(records, records[k].vote))

\* weights 399 and 600, total 999 on both records, reported 1000
C13_Witness ==
    /\ ProcessOptionWrote
    /\ \E k \in 1..Len(LastBatch.records) :
          LET mine == RecordsOfVote(LastBatch.records, LastBatch.records[k].vote)
          IN  /\ Len(mine) = 2
              /\ {mine[1].address_weight, mine[2].address_weight} = {600, 399}
              /\ \A q \in 1..2 : /\ mine[q].total_weight_onchain = 999
                                 /\ mine[q].total_weight_metaforo = 1000
                                 /\ mine[q].need_review

\* the profile lookup did not give a usable profile
ProfileLookupFailed ==
    /\ upc = "wait"
    /\ rpc \in {"returned", "raised"}
    /\ \/ outcome.kind = "exception"
       \/ /\ outcome.kind = "response"
          /\ ~(outcome.body.json /\ outcome.body.status
               /\ outcome.body.code = SUCCESS_CODE)

\* C14: a vote without user id, and a voter whose profile lookup fails or
\* resolves to no address, gets the on-chain total 0 and an empty weight
\* list with no cell-listing request; cell listing runs only for a voter with
\* addresses; the vote yields one sentinel record whose need_review is true
\* exactly when the reported weight is not 0.
C14_ZeroAddresses ==
    /\ [][ProfileLookupFailed => (upc' = "done" /\ addresses_result' = <<>>)]_vars
    /\ [][(\/ ppc = "voter" /\ vi <= Len(voters_data)
                /\ voters_data[vi].user_id = 0
           \/ ppc = "wait_addresses" /\ upc = "done" /\ addresses_result = <<>>)
            => /\ ppc' = "voter"
               /\ vi' = vi + 1
               /\ voters_data'[vi].weight_list = <<>>
               /\ voters_data'[vi].weight_calc = 0
               /\ wpc' = "idle"
               /\ rpc' = "idle"]_vars
    /\ [](wpc # "idle" => (ppc = "wait_weight" /\ addresses # <<>>))
    /\ [](ProcessOptionWrote =>
            \A i \in 1..Len(voters_data) :
                voters_data[i].weight_list = <<>>
                    => LET mine == RecordsOfVote(LastBatch.records, i) IN
                       /\ Len(mine) = 1
                       /\ mine[1].address = EmptyAddress
                       /\ mine[1].address_weight = 0
                       /\ mine[1].total_weight_onchain = 0
                       /\ mine[1].need_review
                            = (Flatten(poll_votes[po_option_id])[i].weight # 0))

\* a vote without user id and reported weight 50: one record, flagged
C14_Witness ==
    /\ ProcessOptionWrote
    /\ \E k \in 1..Len(LastBatch.records) :
          LET r == LastBatch.records[k] IN
          /\ r.userid = 0
          /\ r.total_weight_metaforo = 50
          /\ r.address = EmptyAddress
          /\ r.address_weight = 0
          /\ r.total_weight_onchain = 0
          /\ r.need_review
          /\ Len(RecordsOfVote(LastBatch.records, r.vote)) = 1

NoDuplicates(seq) ==
    \A i \in 1..Len(seq) : \A j \in 1..Len(seq) : seq[i] = seq[j] => i = j

\* C15: no address occurs more than once in the list get_user_dao_addresses
\* returns, so process_option weighs no address of a voter twice.
C15_NoDuplicateAddresses ==
    /\ upc = "done" => NoDuplicates(addresses_result)
    /\ NoDuplicates(addresses)

\* no argument, a URL that does not end in digits (trailing slashes aside),
\* or a non-URL that is not an integer literal
UsageError ==
    \/ argv = <<>>
    \/ /\ argv # <<>>
       /\ LET arg == argv[1]
              cut == RStripSlash(arg)
          IN  IF StartsWithHttp(arg)
              THEN cut[Len(cut)] \notin Digits
              ELSE \/ arg \in {<<>>, <<"+">>, <<"-">>}
                   \/ \E i \in 1..Len(arg) :
                         arg[i] \notin Digits /\ ~(i = 1 /\ arg[1] \in {"+", "-"})

\* C16: with such an argument the first step of the script ends it with
\* exit status 1, the run does end, and no HTTP request is ever sent.
C16_UsageErrorBeforeNetwork ==
    /\ [](UsageError => /\ apis_used = {}
                        /\ rpc = "idle"
                        /\ mpc \in {"start", "exited"}
                        /\ (mpc = "exited" => exit_status = 1))
    /\ [][(mpc = "start" /\ UsageError)
            => (mpc' = "exited" /\ exit_status' = 1)]_vars
    /\ ((mpc = "start" /\ UsageError) ~> (mpc = "exited" /\ exit_status = 1))

C16_Witness ==
    /\ argv = <<Url(<<"1", "2", "?">>)>>
    /\ mpc = "exited"
    /\ exit_status = 1
    /\ apis_used = {}

UrlMode == argv # <<>> /\ StartsWithHttp(argv[1])

\* the option ids of the first poll of the thread the URL names
FirstPollOptionIds ==
    LET opts == threads[thread_id].polls[1].options
    IN  [k \in 1..Len(opts) |-> opts[k].id]

ThreadResolved == UrlMode /\ mpc \in {"option", "wait_option", "exited"} /\ options # <<>>

\* C17: in URL mode, once the thread is resolved, process_option is called
\* for the options of the first poll only, once each and in their order; a
\* process_option that returns (with or without files) is followed by the
\* next option; the run ends with status 0 after the last option.
C17_EveryOptionAttempted ==
    /\ [](ThreadResolved =>
            /\ Len(option_calls) <= Len(FirstPollOptionIds)
            /\ option_calls = SubSeq(FirstPollOptionIds, 1, Len(option_calls))
            /\ (mpc = "exited"
                  => exit_status = 0 /\ option_calls = FirstPollOptionIds))
    /\ [][(mpc = "wait_option" /\ ppc = "done")
            => (mpc' = "option" /\ oi' = oi + 1 /\ exit_status' = None)]_vars
    /\ [][(mpc = "option" /\ oi <= Len(options))
            => (mpc' = "wait_option" /\ po_option_id' = FirstPollOptionIds[oi])]_vars

\* the vote listing of option 1 failed, option 2 was processed all the same
C17_Witness ==
    /\ ThreadResolved
    /\ mpc = "exited"
    /\ option_calls = <<1, 2>>
    /\ poll_votes[1] # <<>>
    /\ Len(exports) = 1
    /\ exports[1].option_id = 2

\* e is the retryable error of the last attempt the retry budget allows
Exhausted(e) ==
    /\ e # None
    /\ is_retryable_error(e)
    /\ e.at = MAX_RETRIES + 1

\* a vote-page, profile or cell-page request has used up its retries and its
\* caller is about to handle the exception
UnitExhausted ==
    /\ rpc = "raised"
    /\ outcome.kind = "exception"
    /\ Exhausted(outcome.exc)
    /\ (gpc = "wait" \/ upc = "wait" \/ wpc = "wait")

ThreadLookupExhausted == mpc = "resolve" /\ opc = "done" /\ Exhausted(thread_error)

\* once a vote-page, profile or cell-page request has been sent the run
\* cannot end with an error status any more, and handling an exhausted
\* request of these kinds leaves the script running
UnitFailuresNotFatal ==
    /\ [](mpc = "exited" /\ exit_status # 0 => apis_used \subseteq {"get_thread"})
    /\ [](ppc # "raised")
    /\ [][UnitExhausted => (mpc' = mpc /\ exit_status' = None)]_vars

\* C18 (as stated): exhausting the retries of any request, the thread lookup
\* included, never ends the run.
C18_NeverFatal ==
    /\ UnitFailuresNotFatal
    /\ [][ThreadLookupExhausted => mpc' # "exited"]_vars

\* C18 (amended): exhausting the retries of a vote-page, profile or
\* cell-page request never ends the run; exhausting the retries of the
\* thread lookup ends it with exit status 1.
C18_FatalOnlyForThreadLookup ==
    /\ UnitFailuresNotFatal
    /\ [][ThreadLookupExhausted => (mpc' = "exited" /\ exit_status' = 1)]_vars

\* a cell-page request has used up its retries, the script goes on
C18_Witness ==
    /\ mpc = "wait_option"
    /\ wpc = "done"
    /\ Exhausted(caught)
    /\ exit_status = None

\* the thread request has ended and does not yield the options of a poll
PollUnresolvable ==
    /\ opc = "wait"
    /\ rpc \in {"returned", "raised"}
    /\ \/ outcome.kind = "exception"
       \/ /\ outcome.kind = "response"
          /\ \/ ~outcome.body.json
             \/ ~outcome.body.status
             \/ outcome.body.code # SUCCESS_CODE
             \/ outcome.body.data.polls = <<>>
             \/ outcome.body.data.polls[1].options = <<>>

\* C19: in URL mode, when the thread has no poll, its first poll has no
\* option, the envelope reports a failure or the thread request fails,
\* get_poll_options returns None and the run ends with exit status 1; no
\* request other than the thread request is ever sent, process_option is
\* never called and nothing is written.
C19_UnresolvedPollIsFatal ==
    /\ [][PollUnresolvable => (opc' = "done" /\ options_result' = None)]_vars
    /\ [][(mpc = "resolve" /\ opc = "done" /\ options_result = None)
            => (mpc' = "exited" /\ exit_status' = 1)]_vars
    /\ []((UrlMode /\ mpc = "exited" /\ options = <<>>)
            => /\ exit_status = 1
               /\ apis_used \subseteq {"get_thread"}
               /\ option_calls = <<>>
               /\ exports = <<>>)

\* thread 3: its only poll has no option
C19_Witness ==
    /\ UrlMode
    /\ thread_id = 3
    /\ mpc = "exited"
    /\ exit_status = 1
    /\ apis_used = {"get_thread"}
    /\ option_calls = <<>>

\* the callee frames of process_option that are in use
BusyFrames == {f \in {"votes", "addresses", "weight"} :
                  \/ f = "votes" /\ gpc # "idle"
                  \/ f = "addresses" /\ upc # "idle"
                  \/ f = "weight" /\ wpc # "idle"}

\* a cell-page request of the address being weighed has failed
CellListingFailed ==
    /\ wpc = "wait"
    /\ rpc \in {"returned", "raised"}
    /\ (outcome.kind = "exception" \/ ~outcome.body.json)

\* C20: once the votes of an option are listed, a failed profile lookup or
\* cell listing only ends the lookup it belongs to: process_option never
\* raises, works on one voter and one address at a time, and the batch it
\* writes has the records of every listed vote, vote after vote in the
\* order of the listing.
C20_EnrichmentFailureIsLocal ==
    /\ [](ppc # "raised")
    /\ [](Cardinality(BusyFrames) <= 1)
    /\ [](upc # "idle" => ppc = "wait_addresses" /\ user_id = voters_data[vi].user_id)
    /\ [](wpc # "idle" => ppc = "wait_weight" /\ address = addresses[ai])
    /\ [][ProfileLookupFailed => (upc' = "done" /\ ppc' = ppc /\ vi' = vi)]_vars
    /\ [][CellListingFailed => (wpc' = "done" /\ ppc' = ppc /\ vi' = vi /\ ai' = ai)]_vars
    /\ []((ppc = "done" /\ voters_data # <<>>) => files # None)
    /\ [](ProcessOptionWrote =>
            LET records == LastBatch.records
                listed  == Flatten(poll_votes[po_option_id])
            IN  /\ \A i \in 1..Len(listed) : RecordsOfVote(records, i) # <<>>
                /\ \A k \in 1..Len(records) :
                      /\ records[k].vote \in 1..Len(listed)
                      /\ records[k].userid = listed[records[k].vote].user_id
                      /\ records[k].total_weight_metaforo
                           = listed[records[k].vote].weight
                      /\ k > 1 => records[k - 1].vote <= records[k].vote)

\* the profile lookup of the first voter and the cell listing of the first
\* address of the second voter failed; the batch has the records of both
C20_Witness ==
    /\ ProcessOptionWrote
    /\ Len(voters_data) = 2
    /\ voters_data[1].user_id = 2 /\ voters_data[1].weight_list = <<>>
    /\ voters_data[2].user_id = 5
    /\ voters_data[2].weight_list
         = <<WeightItem(NativeAddress("a2"), 0), WeightItem(NativeAddress("a1"), 600)>>
    /\ Len(LastBatch.records) = 3

\* the option ids of the batches written so far, in order
BatchOptions == [b \in 1..Len(exports) |-> exports[b].option_id]

BatchesOf(o) == {b \in 1..Len(exports) : exports[b].option_id = o}

\* C21 (as stated): in URL mode, when the run has finished, there is exactly
\* one batch for each option of the poll.
C21_OneBatchPerOption ==
    (ThreadResolved /\ mpc = "exited")
        => \A k \in 1..Len(FirstPollOptionIds) :
              Cardinality(BatchesOf(FirstPollOptionIds[k])) = 1

\* C21 (amended): in URL mode there is at most one batch per option of the
\* poll; process_option writes the batch of its option exactly when the vote
\* listing returned at least one vote, and writes none when the listing
\* failed or was empty.
C21_OneBatchPerListedOption ==
    /\ [](ThreadResolved =>
            /\ \A k \in 1..Len(FirstPollOptionIds) :
                  Cardinality(BatchesOf(FirstPollOptionIds[k])) <= 1
            /\ \A b \in 1..Len(exports) :
                  /\ exports[b].option_id \in Range(option_calls)
                  /\ poll_votes[exports[b].option_id] # <<>>
                  /\ b > 1 => exports[b - 1].option_id < exports[b].option_id)
    /\ [][(ppc = "wait_votes" /\ gpc = "done")
            => IF votes_result.none \/ votes_result.list = <<>>
               THEN ppc' = "done" /\ files' = None /\ exports' = exports
               ELSE ppc' = "voter" /\ exports' = exports]_vars
    /\ []((mpc = "wait_option" /\ ppc = "done")
            => IF voters_data = <<>>
               THEN files = None /\ BatchesOf(po_option_id) = {}
               ELSE files # None /\ BatchesOf(po_option_id) = {Len(exports)})

\* both options had votes and both listings succeeded
C21_Witness ==
    /\ ThreadResolved
    /\ mpc = "exited"
    /\ BatchOptions = <<1, 2>>
    /\ all_files = <<1, 2>>

IdentifierMode == argv # <<>> /\ ~StartsWithHttp(argv[1]) /\ ~UsageError

\* the integer an identifier-shaped argument of the runs denotes
IdentifierOf(arg) ==
    CASE arg = <<"1">> -> 1
      [] arg = <<"+", "2">> -> 2

\* C22: with an integer argument no thread request is ever sent and
\* get_poll_options is not called; process_option is called once, with the
\* integer as option id; the first HTTP request of the run asks for page 1
\* of the votes of that option.
C22_IdentifierIsTheOption ==
    IdentifierMode =>
        LET id == IdentifierOf(argv[1]) IN
        /\ "get_thread" \notin apis_used
        /\ opc = "idle"
        /\ option_calls = IF mpc = "start" THEN <<>> ELSE <<id>>
        /\ mpc \in {"start", "wait_single", "exited"}
        /\ (mpc = "wait_single" /\ ppc # "idle") => po_option_id = id
        /\ (apis_used = {} /\ rpc # "idle")
              => (gpc = "wait" /\ url = VotesUrl(id, 1) /\ vote_requests = <<1>>)
        /\ apis_used # {} => "poll/list" \in apis_used
        /\ \A b \in 1..Len(exports) : exports[b].option_id = id

C22_Witness ==
    /\ IdentifierMode
    /\ argv = <<(<<"+", "2">>)>>
    /\ mpc = "exited" /\ exit_status = 0
    /\ option_calls = <<2>>
    /\ BatchOptions = <<2>>
    /\ "get_thread" \notin apis_used

\* C23: the address metamask_to_ckb_address returns depends on the key and
\* the network flag only: two calls with the same arguments return the same
\* address whatever calls were made in between, and so would the next call;
\* an empty key returns the empty string, which get_user_dao_addresses does
\* not append.
C23_ConversionIsAFunction ==
    /\ \A i, j \in 1..Len(conversions) :
          (conversions[i].key = conversions[j].key
             /\ conversions[i].mainnet = conversions[j].mainnet)
              => conversions[i].address = conversions[j].address
    /\ \A i \in 1..Len(conversions) :
          /\ metamask_to_ckb_address(conversions[i].key, conversions[i].mainnet,
                                     pyckb_config) = conversions[i].address
          /\ conversions[i].key = <<>> =>
                /\ conversions[i].address = EmptyAddress
                /\ \A native \in {<<>>, <<NativeAddress("a1")>>, <<PwAddress>>} :
                      WithDerived(native, conversions[i].address) = native
          /\ conversions[i].key # <<>> =>
                conversions[i].address.hrp
                    = IF conversions[i].mainnet THEN "ckb" ELSE "ckt"

C23_Witness ==
    /\ Len(conversions) = 3
    /\ conversions[1].key = WalletKey /\ conversions[1].mainnet
    /\ conversions[2].key = WalletKey /\ ~conversions[2].mainnet
    /\ conversions[3] = conversions[1]
    /\ conversions[2].address # conversions[1].address

\* the profile request of get_user_dao_addresses was answered with user data
ProfileFound ==
    /\ upc = "wait"
    /\ rpc = "returned"
    /\ outcome.kind = "response"
    /\ outcome.body.json /\ outcome.body.status
    /\ outcome.body.code = SUCCESS_CODE

\* the PW Lock main-net address of the keys of the profiles
DerivedAddress(key) ==
    CASE key = <<>> -> EmptyAddress
      [] key \in {WalletKey, BareKey} -> PwAddress

\* C24: for a profile with a convertible or absent key get_user_dao_addresses
\* returns the native addresses, unchanged and in order, followed by the
\* derived address exactly when the key is present, the derived address is
\* not empty and no native address equals it; nothing else is appended.
C24_NativeThenDerived ==
    [][(ProfileFound
          /\ outcome.body.data.web3_public_key \in {<<>>, WalletKey, BareKey})
        => LET native == outcome.body.data.neuron_addresses
               key == outcome.body.data.web3_public_key
               derived == DerivedAddress(key)
               appended == /\ key # <<>>
                           /\ derived # EmptyAddress
                           /\ \A i \in 1..Len(native) : native[i] # derived
           IN  /\ upc' = "done"
               /\ SubSeq(addresses_result', 1, Len(native)) = native
               /\ Len(addresses_result') = Len(native) + (IF appended THEN 1 ELSE 0)
               /\ appended => addresses_result'[Len(native) + 1] = derived]_vars

C24_Witness ==
    /\ upc = "done"
    /\ profiles[1] = Profile(<<NativeAddress("a2"), NativeAddress("a1")>>, WalletKey)
    /\ addresses_result = <<NativeAddress("a2"), NativeAddress("a1"), PwAddress>>

IsDeposit(cell) == cell.cell_type = "nervos_dao_deposit"

\* a page of cells has been received by get_address_onchain_weight
CellPageReceived ==
    /\ wpc = "wait"
    /\ rpc = "returned"
    /\ outcome.kind = "response"
    /\ outcome.body.json

\* C25: the cells that are not Nervos DAO deposits add nothing to the running
\* sum (the sum after a page is the sum the deposit cells of the page alone
\* give), yet they count in the page length: after a page of 20 cells, even
\* one without any deposit, the sum is as the deposits left it, and the next
\* page is requested after the cooldown.
C25_OtherCellsOnlyCount ==
    /\ [][CellPageReceived
            => LET data == outcome.body.data
                   deposits == SelectSeq(data, IsDeposit)
               IN  /\ total_capacity' = SumDeposits(total_capacity, deposits)
                   /\ deposits = <<>> => total_capacity' = total_capacity
                   /\ Len(data) = PAGE_SIZE
                        => (wpc' = "cooldown" /\ wpage' = wpage + 1)
                   /\ Len(data) < PAGE_SIZE => wpc' = "done"]_vars
    /\ [][wpc = "cooldown"
            => (wpc' = "request" /\ wpage' = wpage
                  /\ total_capacity' = total_capacity)]_vars
    /\ [][(wpc = "request" /\ wpc' # "request")
            => (cell_requests' = Append(cell_requests, wpage)
                  /\ url' = CellsUrl(address, wpage, PAGE_SIZE))]_vars

C25_Witness ==
    /\ wpc = "done" /\ failed_page = 0
    /\ chain[address] = CellList(2 * PAGE_SIZE + 7, Other(Shannons(7, 0)),
                                 Other(Shannons(3, 0)))
    /\ cell_requests = <<1, 2, 3>>
    /\ total_capacity = Zero
    /\ weight_result = 0

\* between two consecutive page requests of a call of get_all_votes there is
\* exactly one cooldown, whatever retries the requests needed
OneCooldownBetweenRequests ==
    /\ gpc \in {"wait", "cooldown", "done"}
          => (Len(vote_requests) >= 1 /\ n_cooldowns = Len(vote_requests) - 1)
    /\ gpc = "request" => n_cooldowns = Len(vote_requests)

\* C26: get_all_votes sleeps 0.5 once between two consecutive page requests,
\* whether or not the requests were retried, and every page request, whatever
\* its outcome, is followed by the cooldown.
C26_CooldownAfterEveryRequest ==
    /\ []OneCooldownBetweenRequests
    /\ [][(gpc = "wait" /\ gpc' # "wait") => gpc' = "cooldown"]_vars
    /\ [][gpc = "cooldown" => (gpc' = "request" /\ n_cooldowns' = n_cooldowns + 1
                                 /\ n_delays' = n_delays)]_vars
    /\ [][n_delays' # n_delays => n_cooldowns' = n_cooldowns]_vars

\* C27: a call that returns a response on attempt k has made k attempts and
\* slept k - 1 times, every earlier attempt having failed with a retryable
\* error; a delay is only taken after a retryable failure and is followed by
\* an attempt: none before the first attempt, none after the last one,
\* whether it succeeded or its failure was raised.
C27_DelaysBetweenAttempts ==
    /\ [](rpc = "returned"
            => /\ outcome.kind = "response"
               /\ outcome.body \in Bodies(url)
               /\ n_attempts \in 1..(max_retries + 1)
               /\ n_delays = n_attempts - 1
               /\ n_attempts > 1 => /\ is_retryable_error(last_exception)
                                    /\ last_exception.at = n_attempts - 1
               /\ n_attempts = 1 => last_exception = None)
    /\ [][n_delays' # n_delays
            => /\ n_delays' = n_delays + 1
               /\ n_attempts' = n_attempts
               /\ last_exception # None
               /\ is_retryable_error(last_exception)
               /\ last_exception.at = n_attempts
               /\ n_delays = n_attempts - 1
               /\ rpc' = "try"]_vars
    /\ [][n_attempts' # n_attempts
            => (n_attempts' = n_attempts + 1 /\ n_delays = n_attempts)]_vars
    /\ [](n_attempts = 0 => n_delays = 0)
    /\ []((rpc \in {"returned", "raised"} /\ n_attempts > 0)
            => n_delays = n_attempts - 1)

C27_Witness ==
    /\ rpc = "returned" /\ max_retries = MAX_RETRIES
    /\ n_attempts = MAX_RETRIES + 1 /\ n_delays = MAX_RETRIES
    /\ last_exception = Exc("HTTPError", 503, MAX_RETRIES)

NonNegative(capacity) == capacity[1] >= 0 /\ capacity[2] >= 0

\* C28: the cells of the chain having capacities that are not negative, no
\* weight is negative: the running sum of get_address_onchain_weight, the
\* weight it returns, the weights and the total process_option collects for
\* a voter, and the weights of the exported records.
C28_WeightsNotNegative ==
    (\A a \in DOMAIN chain : \A k \in 1..Len(chain[a]) :
         NonNegative(chain[a][k].capacity))
    => /\ NonNegative(total_capacity)
       /\ weight_result >= 0
       /\ total_onchain_weight >= 0
       /\ \A j \in 1..Len(weight_list) : weight_list[j].Weight >= 0
       /\ \A i \in 1..Len(voters_data) :
             "weight_calc" \in DOMAIN voters_data[i]
                => /\ voters_data[i].weight_calc >= 0
                   /\ \A j \in 1..Len(voters_data[i].weight_list) :
                         voters_data[i].weight_list[j].Weight >= 0
       /\ \A b \in 1..Len(exports) : \A k \in 1..Len(exports[b].records) :
             /\ exports[b].records[k].address_weight >= 0
             /\ exports[b].records[k].total_weight_onchain >= 0

C28_Witness ==
    /\ ProcessOptionWrote
    /\ \E k, q \in 1..Len(LastBatch.records) :
          /\ LastBatch.records[k].address_weight = 0
          /\ LastBatch.records[k].total_weight_onchain = 0
          /\ LastBatch.records[q].address_weight = 600
          /\ LastBatch.records[q].total_weight_onchain = 999

\* C29: whatever requests fail, the weight get_address_onchain_weight returns
\* is at most floor(S / 10^8), S the sum of the capacities of all the deposit
\* cells of the address, and it is that value when no page request fails.
C29_FailureOnlyLowers ==
    wpc = "done"
        => LET full == FloorCkb(ExactDepositSum(chain[address])) IN
           /\ weight_result <= full
           /\ failed_page = 0 => weight_result = full

\* C30: when every listing ends, the run ends, whatever requests fail; a vote
\* listing that never ends is left only through a failing request (no list
\* is ever returned), and so is a cell listing that never ends: neither loop
\* stops at a page number.
C30_EndsUnlessListingEndless ==
    /\ (endless = AllEnd) => <>(mpc = "exited")
    /\ []((gpc = "done" /\ option_id \in endless.votes) => votes_result = None)
    /\ []((wpc = "done" /\ address \in endless.cells) => failed_page > 0)
    /\ [](option_id \in endless.votes
            => (vote_requests = Counting(Len(vote_requests))
                  /\ Len(all_votes) = (vpage - 1) * Len(poll_votes[option_id][1])))
    /\ [](address \in endless.cells
            => cell_requests = Counting(Len(cell_requests)))

C30_Witness ==
    /\ endless.votes = {2}
    /\ option_id = 2
    /\ gpc = "request"
    /\ vpage = MaxEndlessPages + 1
    /\ vote_requests = Counting(MaxEndlessPages)
    /\ mpc # "exited"

====
